---- MODULE Spec2Model ----
(***************************************************************************)
(* A model of plexgen: the character-set algebra (plexgen/charset.py), the *)
(* priority queue it uses (plexgen/prioq.py) and the automaton layer       *)
(* (plexgen/automaton.py, states.py, transitions.py).                      *)
(*                                                                         *)
(* A Range is the pair <<start, end>>; a range list is a sequence of       *)
(* Ranges.  Indices into range lists are 0-based, as in the Python source; *)
(* the element at Python index i is ranges[i + 1] here.                    *)
(***************************************************************************)
EXTENDS Integers, Sequences, FiniteSets, TLC

(***************************************************************************)
(* Program constants (charset.py:26-28).                                   *)
(***************************************************************************)
MIN_CHAR == 0
MAX_CHAR == 1114111
FULL_LENGTH == (MAX_CHAR - MIN_CHAR) + 1

(***************************************************************************)
(* Bounds of the model.  Range end points given as inputs are drawn from   *)
(* the code points 0..MaxPoint at the low end of the code space and from   *)
(* the last two code points at its high end; a character set given as an   *)
(* input has at most MaxRanges ranges.  CharSet.disjoint is given up to    *)
(* DjMaxSets sets over the code points 0..DjMaxPoint.  A character set     *)
(* built from a sequence of items is given at most MaxSeqLen items, which  *)
(* is also the longest string matched or given to match_str.  The items    *)
(* and operands of the mutators of one mutable set are drawn from the code *)
(* points 0..CsMaxPoint and the last code point.                           *)
(***************************************************************************)
MaxPoint == 3
MaxRanges == 2
DjMaxPoint == 3
DjMaxSets == 2
MaxSeqLen == 2
CsMaxPoint == 2
MaxRepeat == 2
MaxPrecedence == 2
MaxTie == 2
SMaxStates == 2
SMaxCsets == 2
SMaxCalls == 3
ClMaxStates == 3
ClMaxEdges == 2

Points == (MIN_CHAR..MaxPoint) \cup {MAX_CHAR - 1, MAX_CHAR}

(* A range list whose end points all lie within one code point of Points   *)
(* (the set Boundary below) has constant membership from MaxPoint + 2 to   *)
(* MAX_CHAR - 3, so Probe samples every class of code point.               *)
Probe == (MIN_CHAR..(MaxPoint + 2)) \cup ((MAX_CHAR - 3)..MAX_CHAR)

Range(start, end) == <<start, end>>

Min2(a, b) == IF a < b THEN a ELSE b
Max2(a, b) == IF a < b THEN b ELSE a

(* Python's  lst[a:b] = repl  for 0 <= a <= len(lst)  (a slice whose stop  *)
(* lies before its start is empty and sits at start).                      *)
SliceAssign(lst, a, b, repl) ==
    LET stop == Min2(Max2(a, b), Len(lst))
    IN  SubSeq(lst, 1, a) \o repl \o SubSeq(lst, stop + 1, Len(lst))

(***************************************************************************)
(* charset.py:118-171  _search_ranges(ranges, item, lo=0, hi=None)         *)
(* The result is <<idx, contained>>.  hi = None is passed as Len(ranges);  *)
(* every caller in the module passes 0 <= lo <= len(ranges) and no hi, so  *)
(* the IndexError branches (lines 145-148) are not taken.                  *)
(***************************************************************************)
RECURSIVE _search_loop(_, _, _, _)
_search_loop(ranges, item, lo, hi) ==
    IF lo < hi
    THEN LET mid == (lo + hi) \div 2
             rng == ranges[mid + 1]
         IN  IF rng[1] <= item /\ item <= rng[2]
             THEN <<mid, TRUE>>
             ELSE IF item < rng[1]
                  THEN _search_loop(ranges, item, lo, mid)
                  ELSE _search_loop(ranges, item, mid + 1, hi)
    ELSE <<lo, FALSE>>

_search_ranges(ranges, item, lo) ==
    LET hi == Len(ranges)
    IN  IF lo >= hi THEN <<lo, FALSE>> ELSE _search_loop(ranges, item, lo, hi)

(* The "no hint" value of start_hint / end_hint (None in the source).      *)
NoHint == <<>>

(***************************************************************************)
(* charset.py:174-223  _add_range                                          *)
(***************************************************************************)
_add_range(ranges, start, end, start_hint, end_hint) ==
    LET sh == IF start_hint = NoHint THEN _search_ranges(ranges, start, 0)
              ELSE start_hint
        start_idx0 == sh[1]
        start_contained == sh[2]
        eh == IF end_hint = NoHint THEN _search_ranges(ranges, end, start_idx0)
              ELSE end_hint
        end_idx0 == eh[1]
        end_contained == eh[2]
        start1 == IF start_contained THEN ranges[start_idx0 + 1][1] ELSE start
        end1 == IF end_contained THEN ranges[end_idx0 + 1][2] ELSE end
        end_idx1 == IF end_contained THEN end_idx0 + 1 ELSE end_idx0
        mergeLeft == start_idx0 > 0 /\ ranges[start_idx0][2] + 1 = start1
        start_idx2 == IF mergeLeft THEN start_idx0 - 1 ELSE start_idx0
        start2 == IF mergeLeft THEN ranges[start_idx2 + 1][1] ELSE start1
        mergeRight == end_idx1 < Len(ranges) /\ ranges[end_idx1 + 1][1] = end1 + 1
        end2 == IF mergeRight THEN ranges[end_idx1 + 1][2] ELSE end1
        end_idx2 == IF mergeRight THEN end_idx1 + 1 ELSE end_idx1
    IN  IF start_idx0 = end_idx0 /\ start_contained /\ end_contained
        THEN ranges
        ELSE SliceAssign(ranges, start_idx2, end_idx2, <<Range(start2, end2)>>)

(* A faulty _discard_range: the part of the last range that lies beyond    *)
(* `end` is dropped instead of kept.                                       *)
_discard_range_no_tail(ranges, start, end, start_hint, end_hint) ==
    LET sh == IF start_hint = NoHint THEN _search_ranges(ranges, start, 0)
              ELSE start_hint
        start_idx == sh[1]
        start_contained == sh[2]
        eh == IF end_hint = NoHint THEN _search_ranges(ranges, end, start_idx)
              ELSE end_hint
        end_idx0 == eh[1]
        end_contained == eh[2]
        repl1 == IF start_contained /\ ranges[start_idx + 1][1] # start
                 THEN <<Range(ranges[start_idx + 1][1], start - 1)>>
                 ELSE <<>>
        end_idx1 == IF end_contained THEN end_idx0 + 1 ELSE end_idx0
    IN  IF start_idx = end_idx0 /\ ~start_contained /\ ~end_contained
        THEN ranges
        ELSE SliceAssign(ranges, start_idx, end_idx1, repl1)

(***************************************************************************)
(* charset.py:226-270  _discard_range                                      *)
(***************************************************************************)
_discard_range(ranges, start, end, start_hint, end_hint) ==
    LET sh == IF start_hint = NoHint THEN _search_ranges(ranges, start, 0)
              ELSE start_hint
        start_idx == sh[1]
        start_contained == sh[2]
        eh == IF end_hint = NoHint THEN _search_ranges(ranges, end, start_idx)
              ELSE end_hint
        end_idx0 == eh[1]
        end_contained == eh[2]
        repl1 == IF start_contained /\ ranges[start_idx + 1][1] # start
                 THEN <<Range(ranges[start_idx + 1][1], start - 1)>>
                 ELSE <<>>
        repl2 == IF end_contained /\ ranges[end_idx0 + 1][2] # end
                 THEN <<Range(end + 1, ranges[end_idx0 + 1][2])>>
                 ELSE <<>>
        end_idx1 == IF end_contained THEN end_idx0 + 1 ELSE end_idx0
    IN  IF start_idx = end_idx0 /\ ~start_contained /\ ~end_contained
        THEN ranges
        ELSE SliceAssign(ranges, start_idx, end_idx1, repl1 \o repl2)

(***************************************************************************)
(* charset.py:273-301  _invert: the generator's output as a list.          *)
(* _invert_loop carries the loop variable `start` and the ranges yielded   *)
(* so far; i is the 1-based position of the next range to walk.            *)
(***************************************************************************)
RECURSIVE _invert_loop(_, _, _, _)
_invert_loop(ranges, i, start, out) ==
    IF i > Len(ranges)
    THEN IF start <= MAX_CHAR THEN Append(out, Range(start, MAX_CHAR)) ELSE out
    ELSE LET rng == ranges[i]
             end == rng[1] - 1
         IN  _invert_loop(ranges, i + 1, rng[2] + 1,
                          IF start <= end THEN Append(out, Range(start, end))
                          ELSE out)

(* A faulty _invert: the complement always starts at code point 1.         *)
_invert_from_one(ranges) == _invert_loop(ranges, 1, MIN_CHAR + 1, <<>>)

_invert(ranges) == _invert_loop(ranges, 1, MIN_CHAR, <<>>)

(* for rng in rs: _discard_range(acc, rng.start, rng.end)                  *)
RECURSIVE DiscardAll(_, _, _)
DiscardAll(acc, rs, i) ==
    IF i > Len(rs) THEN acc
    ELSE DiscardAll(_discard_range(acc, rs[i][1], rs[i][2], NoHint, NoHint),
                    rs, i + 1)

(* for rng in rs: _add_range(acc, rng.start, rng.end)                      *)
RECURSIVE AddAll(_, _, _)
AddAll(acc, rs, i) ==
    IF i > Len(rs) THEN acc
    ELSE AddAll(_add_range(acc, rs[i][1], rs[i][2], NoHint, NoHint), rs, i + 1)

(***************************************************************************)
(* charset.py:304-326  _intersection                                       *)
(***************************************************************************)
_intersection(ranges1, ranges2) ==
    LET swap == Len(ranges1) < Len(ranges2)
        r1 == IF swap THEN ranges2 ELSE ranges1
        r2 == IF swap THEN ranges1 ELSE ranges2
    IN  DiscardAll(r1, _invert(r2), 1)

(***************************************************************************)
(* charset.py:329-351  _union                                              *)
(***************************************************************************)
_union(ranges1, ranges2) ==
    LET swap == Len(ranges1) < Len(ranges2)
        r1 == IF swap THEN ranges2 ELSE ranges1
        r2 == IF swap THEN ranges1 ELSE ranges2
    IN  AddAll(r1, r2, 1)

(***************************************************************************)
(* charset.py:354-373  _difference                                         *)
(***************************************************************************)
_difference(ranges1, ranges2) == DiscardAll(ranges1, ranges2, 1)

(***************************************************************************)
(* charset.py:376-399  _sym_difference                                     *)
(***************************************************************************)
_sym_difference(ranges1, ranges2) ==
    LET tmp1 == DiscardAll(ranges1, ranges2, 1)
        tmp2 == DiscardAll(ranges2, ranges1, 1)
    IN  _union(tmp1, tmp2)

(***************************************************************************)
(* charset.py:402-426  _isdisjoint                                         *)
(***************************************************************************)
(* A faulty disjointness loop: only the two end points of each range are   *)
(* looked up, so a range that swallows a whole range of the other list is  *)
(* taken to be disjoint from it.                                           *)
RECURSIVE _isdisjoint_ends_only(_, _, _)
_isdisjoint_ends_only(r1, r2, i) ==
    IF i > Len(r2) THEN TRUE
    ELSE LET s == _search_ranges(r1, r2[i][1], 0)
             e == _search_ranges(r1, r2[i][2], s[1])
         IN  IF s[2] \/ e[2]
             THEN FALSE
             ELSE _isdisjoint_ends_only(r1, r2, i + 1)

RECURSIVE _isdisjoint_loop(_, _, _)
_isdisjoint_loop(r1, r2, i) ==
    IF i > Len(r2) THEN TRUE
    ELSE LET s == _search_ranges(r1, r2[i][1], 0)
             e == _search_ranges(r1, r2[i][2], s[1])
         IN  IF s[1] # e[1] \/ s[2] \/ e[2]
             THEN FALSE
             ELSE _isdisjoint_loop(r1, r2, i + 1)

_isdisjoint(ranges1, ranges2) ==
    LET swap == Len(ranges1) < Len(ranges2)
        r1 == IF swap THEN ranges2 ELSE ranges1
        r2 == IF swap THEN ranges1 ELSE ranges2
    IN  _isdisjoint_loop(r1, r2, 1)

(***************************************************************************)
(* BaseCharSet operators on range lists (a character set is its `ranges`   *)
(* plus the length cache; the value-returning operators build a new set).  *)
(***************************************************************************)
(* charset.py:633-647  __eq__ : structural equality of the range lists     *)
CSetEq(a, b) == a = b

(* charset.py:742-752  __invert__                                          *)
CSetInvert(a) == _invert(a)

(* charset.py:754-770  __and__                                             *)
CSetAnd(a, b) == IF CSetEq(a, b) THEN a ELSE _intersection(a, b)

(* charset.py:772-787  __or__                                              *)
CSetOr(a, b) == IF CSetEq(a, b) THEN a ELSE _union(a, b)

(* charset.py:789-804  __sub__                                             *)
CSetSub(a, b) == IF CSetEq(a, b) THEN <<>> ELSE _difference(a, b)

(* charset.py:806-825  __xor__                                             *)
CSetXor(a, b) == IF CSetEq(a, b) THEN <<>> ELSE _sym_difference(a, b)

(* charset.py:851-865  isdisjoint                                          *)
CSetIsDisjoint(a, b) == _isdisjoint(a, b)

(* charset.py:585-601  __contains__ for an integer item                    *)
CSetContains(a, item) == _search_ranges(a, item, 0)[2]

(* charset.py:628-629  the sum computed by __len__                         *)
RECURSIVE RangeSum(_)
RangeSum(ranges) ==
    IF ranges = <<>> THEN 0
    ELSE ((ranges[1][2] - ranges[1][1]) + 1) + RangeSum(Tail(ranges))

(***************************************************************************)
(* The mutable CharSet (charset.py:868-1136).  A set is the record         *)
(* [ranges, len]: its range list and its _len_cache, <<>> for None and     *)
(* <<n>> for the cached length n.  A mutator returns the set it leaves     *)
(* behind together with exc, the exception it raised ("none" if none).     *)
(* An item is [kind, cp]: an integer code point ("int") or a one-character *)
(* string ("chr") whose ord() is cp.                                       *)
(***************************************************************************)
NoLen == <<>>

Outcome(ranges, len, exc) == [ranges |-> ranges, len |-> len, exc |-> exc]

(* charset.py:51-63  _vchars raises ValueError outside [MIN_CHAR, MAX_CHAR] *)
_vchars_ok(c) == MIN_CHAR <= c /\ c <= MAX_CHAR

(* Lines 1023-1026 (and 1050-1053, 1085-1089): ord() of a string item,     *)
(* _vchars of an integer item.                                             *)
ItemRejected(item) == item.kind = "int" /\ ~_vchars_ok(item.cp)

(* charset.py:1014-1039  CharSet.add                                       *)
CharSet_add(cs, item) ==
    IF ItemRejected(item) THEN Outcome(cs.ranges, cs.len, "ValueError")
    ELSE LET hint == _search_ranges(cs.ranges, item.cp, 0)
         IN  IF hint[2] THEN Outcome(cs.ranges, cs.len, "none")
             ELSE Outcome(_add_range(cs.ranges, item.cp, item.cp, hint, hint),
                          NoLen, "none")

(* charset.py:1041-1071  CharSet.discard                                   *)
CharSet_discard(cs, item) ==
    IF ItemRejected(item) THEN Outcome(cs.ranges, cs.len, "ValueError")
    ELSE IF cs.ranges = <<>> THEN Outcome(cs.ranges, cs.len, "none")
    ELSE LET hint == _search_ranges(cs.ranges, item.cp, 0)
         IN  IF ~hint[2] THEN Outcome(cs.ranges, cs.len, "none")
             ELSE Outcome(_discard_range(cs.ranges, item.cp, item.cp, hint, hint),
                          NoLen, "none")

(* charset.py:1073-1108  CharSet.remove.  Line 1107 hands `item`, not the  *)
(* code point `char`, to _discard_range: for a string item the comparison  *)
(* at line 260 is between an int and a str, so line 261 evaluates          *)
(* start - 1 on a str and raises TypeError before the list is touched; the *)
(* cache has been cleared at line 1104 by then.                            *)
CharSet_remove(cs, item) ==
    IF ItemRejected(item) THEN Outcome(cs.ranges, cs.len, "ValueError")
    ELSE IF cs.ranges = <<>> THEN Outcome(cs.ranges, cs.len, "KeyError")
    ELSE LET hint == _search_ranges(cs.ranges, item.cp, 0)
         IN  IF ~hint[2] THEN Outcome(cs.ranges, cs.len, "KeyError")
             ELSE IF item.kind = "chr"
                  THEN Outcome(cs.ranges, NoLen, "TypeError")
                  ELSE Outcome(_discard_range(cs.ranges, item.cp, item.cp,
                                              hint, hint),
                               NoLen, "none")

(* charset.py:1110-1127  CharSet.pop.  The start of the first range is     *)
(* removed before line 1127 turns it into a character, and unichr raises   *)
(* ValueError for a number that is no code point.                          *)
CharSet_pop(cs) ==
    IF cs.ranges = <<>> THEN Outcome(cs.ranges, cs.len, "KeyError")
    ELSE LET item == cs.ranges[1][1]
         IN  Outcome(_discard_range(cs.ranges, item, item,
                                    <<0, TRUE>>, <<0, TRUE>>),
                     NoLen,
                     IF item < MIN_CHAR \/ item > MAX_CHAR
                     THEN "ValueError" ELSE "none")

(* charset.py:1129-1136  CharSet.clear                                     *)
CharSet_clear(cs) == Outcome(<<>>, NoLen, "none")

(* charset.py:937-954  CharSet.__iand__                                    *)
CharSet_iand(cs, other) ==
    IF cs.ranges # other
    THEN Outcome(_intersection(cs.ranges, other), NoLen, "none")
    ELSE Outcome(cs.ranges, cs.len, "none")

(* charset.py:956-973  CharSet.__ior__                                     *)
CharSet_ior(cs, other) ==
    IF cs.ranges # other
    THEN Outcome(_union(cs.ranges, other), NoLen, "none")
    ELSE Outcome(cs.ranges, cs.len, "none")

(* charset.py:975-992  CharSet.__isub__                                    *)
CharSet_isub(cs, other) ==
    Outcome(IF cs.ranges = other THEN <<>> ELSE _difference(cs.ranges, other),
            NoLen, "none")

(* charset.py:994-1012  CharSet.__ixor__                                   *)
CharSet_ixor(cs, other) ==
    Outcome(IF cs.ranges = other THEN <<>> ELSE _sym_difference(cs.ranges, other),
            NoLen, "none")

(* charset.py:616-631  BaseCharSet.__len__: the cache after the call       *)
CharSet_len(cs) == IF cs.len = NoLen THEN <<RangeSum(cs.ranges)>> ELSE cs.len

(***************************************************************************)
(* charset.py:877-935  CharSet.__init__, one operator per form of the      *)
(* arguments.  The result is an Outcome; with exc # "none" no set exists.  *)
(***************************************************************************)
(* Lines 933-935: CharSet()                                                *)
CharSet_init_empty == Outcome(<<>>, NoLen, "none")

(* Lines 899-918: CharSet(start) and CharSet(start, end) for integers or   *)
(* one-character strings; hasEnd tells whether end was given.  Strings     *)
(* compare as their code points do.                                        *)
CharSet_init_range(start, hasEnd, end) ==
    IF ItemRejected(start) \/ (hasEnd /\ ItemRejected(end))
    THEN Outcome(<<>>, NoLen, "ValueError")
    ELSE IF hasEnd /\ start.cp > end.cp
         THEN Outcome(<<>>, NoLen, "ValueError")
         ELSE Outcome(<<Range(start.cp, IF hasEnd THEN end.cp ELSE start.cp)>>,
                      NoLen, "none")

(* Lines 920-922: CharSet((start, end)), a plain 2-tuple: the pair is      *)
(* unpacked into a Range with no check of its ends.                        *)
CharSet_init_tuple(pair) == Outcome(<<Range(pair[1], pair[2])>>, NoLen, "none")

(* Lines 924-926: CharSet(other) for a character set                       *)
CharSet_init_copy(other) == Outcome(other, NoLen, "none")

(* Lines 928-932: CharSet(items) for a sequence of items, each add()ed;    *)
(* the first exception ends the construction.                              *)
RECURSIVE CharSet_init_seq_loop(_, _)
CharSet_init_seq_loop(cs, items) ==
    IF items = <<>> THEN Outcome(cs.ranges, cs.len, "none")
    ELSE LET r == CharSet_add(cs, Head(items))
         IN  IF r.exc # "none" THEN r
             ELSE CharSet_init_seq_loop(r, Tail(items))

CharSet_init_seq(items) == CharSet_init_seq_loop(CharSet_init_empty, items)

(***************************************************************************)
(* States, transitions and machines (states.py, transitions.py,            *)
(* automaton.py).  Objects are referred to by identity, so a machine is    *)
(* modelled with the objects it reaches:                                   *)
(*   st     state id -> State object [accepting, code, trans_in,           *)
(*          trans_out, eps_in, eps_out]; the transition tables are sets of *)
(*          transition ids (the priority of a transition is fixed by its   *)
(*          class) and the eps caches are <<>> for None;                   *)
(*   tr     transition id -> Transition object [cls, state_out, state_in,  *)
(*          cset];                                                         *)
(*   start, accepting, states, final_cache                                 *)
(*          Machine._start, _accepting, _states and _final_cache, an       *)
(*          optional state being <<>> for None and <<id>> otherwise.       *)
(* A call returns a record with exc, the exception raised ("none" if       *)
(* none), and mach, the machine it returns or leaves behind; NoMachine     *)
(* stands where there is no machine.                                       *)
(***************************************************************************)
NoMachine == <<>>
NoCode == <<>>

MOutcome(mach, exc) == [mach |-> mach, exc |-> exc]

(* states.py:115-141  State.__init__                                       *)
State_init(accepting, code) ==
    [accepting |-> accepting, code |-> code, trans_in |-> {}, trans_out |-> {},
     eps_in |-> <<>>, eps_out |-> <<>>]

(* states.py:143-152  State.reverse                                        *)
State_reverse(state) ==
    [state EXCEPT !.trans_in = state.trans_out, !.trans_out = state.trans_in]

(* transitions.py:107-115  Transition.reverse                              *)
Transition_reverse(trans) ==
    [trans EXCEPT !.state_out = trans.state_in, !.state_in = trans.state_out]

(* states.py:154-200  State.transition for the class Epsilon, whose merge  *)
(* (transitions.py:234-250) keeps the new transition alone.                *)
State_transition_Epsilon(m, self, next_state) ==
    LET trans == Cardinality(DOMAIN m.tr) + 1
        others == {t \in m.st[self].trans_out :
                      m.tr[t].state_in = next_state /\ m.tr[t].cls = "Epsilon"}
        st1 == [m.st EXCEPT ![self].trans_out = (@ \ others) \cup {trans}]
        st2 == [st1 EXCEPT ![next_state].trans_in = (@ \ others) \cup {trans}]
        st3 == [st2 EXCEPT ![next_state].eps_in = <<>>]
        st4 == [st3 EXCEPT ![self].eps_out = <<>>]
    IN  [m EXCEPT !.st = st4,
                  !.tr = (trans :> [cls |-> "Epsilon", state_out |-> self,
                                    state_in |-> next_state, cset |-> <<>>]) @@ m.tr]

(* automaton.py:88-108  Machine.__init__.  Line 100 calls State, a name    *)
(* the module never binds (its imports, lines 17-21, are six, charset,     *)
(* states and transitions): NameError, whatever the arguments.             *)
Machine_init(accepting, code) == MOutcome(NoMachine, "NameError")

(* automaton.py:465-472  Matcher.__init__                                  *)
Matcher_init == Machine_init(FALSE, NoCode)

(* automaton.py:774-783  Lexer.__init__                                    *)
Lexer_init == Machine_init(TRUE, <<"">>)

(* automaton.py:156-180  Machine._new_state                                *)
Machine__new_state(m, accepting, code) ==
    LET new == Cardinality(DOMAIN m.st) + 1
        m1 == [m EXCEPT !.st = (new :> State_init(accepting, code)) @@ m.st,
                        !.states = @ \cup {new}]
    IN  [mach |-> IF accepting
                  THEN [m1 EXCEPT !.accepting = @ \cup {new}, !.final_cache = <<>>]
                  ELSE m1,
         new |-> new]

(* automaton.py:225-230  the loop of _unify_accepting over the accepting   *)
(* states                                                                  *)
RECURSIVE UnifyLoop(_, _, _)
UnifyLoop(m, todo, new) ==
    IF todo = {} THEN m
    ELSE LET state == CHOOSE x \in todo : \A y \in todo : x <= y
             m1 == State_transition_Epsilon(m, state, new)
         IN  UnifyLoop([m1 EXCEPT !.st[state].accepting = FALSE],
                       todo \ {state}, new)

(* automaton.py:208-237  Machine._unify_accepting                          *)
Machine__unify_accepting(m) ==
    LET r == Machine__new_state(m, FALSE, NoCode)
        m1 == UnifyLoop(r.mach, m.accepting, r.new)
    IN  [mach |-> [m1 EXCEPT !.st[r.new].accepting = TRUE,
                             !.accepting = {r.new},
                             !.final_cache = <<r.new>>],
         new |-> r.new]

(* automaton.py:375-397  Machine._final: the machine it leaves and the     *)
(* state it returns                                                        *)
Machine__final(m) ==
    IF m.final_cache # <<>> THEN [mach |-> m, final |-> m.final_cache]
    ELSE IF m.accepting = {} THEN [mach |-> m, final |-> <<>>]
    ELSE IF Cardinality(m.accepting) > 1
         THEN LET u == Machine__unify_accepting(m)
              IN  [mach |-> [u.mach EXCEPT !.final_cache = <<u.new>>],
                   final |-> <<u.new>>]
         ELSE LET only == CHOOSE x \in m.accepting : TRUE
              IN  [mach |-> [m EXCEPT !.final_cache = <<only>>],
                   final |-> <<only>>]

(* automaton.py:282-315  Machine.reverse.  With no accepting state final   *)
(* is None and line 307 raises AttributeError after line 306 has stored    *)
(* None as the start state.  Lines 295-299 reverse the outgoing            *)
(* transitions of each state in turn, so a transition that several states  *)
(* of the machine hold in their outgoing tables is reversed once for each, *)
(* and ends up reversed when their number is odd.                          *)
Machine_reverse(m) ==
    LET Swapped(start, final, m2) ==
            IF start = final THEN MOutcome(m2, "none")
            ELSE IF final = <<>>
                 THEN MOutcome([m2 EXCEPT !.start = final], "AttributeError")
                 ELSE MOutcome(
                        [m2 EXCEPT !.start = final,
                                   !.accepting = {start[1]},
                                   !.st = [[[[m2.st EXCEPT ![final[1]].accepting = FALSE]
                                              EXCEPT ![start[1]].accepting = TRUE]
                                              EXCEPT ![final[1]].code = m2.st[start[1]].code]
                                              EXCEPT ![start[1]].code = NoCode]],
                        "none")
        Reversed(final, m1) ==
            Swapped(m.start, final,
                    [m1 EXCEPT
                       !.tr = [t \in DOMAIN m1.tr |->
                                  IF Cardinality({state \in m1.states :
                                         t \in m1.st[state].trans_out}) % 2 = 1
                                  THEN Transition_reverse(m1.tr[t])
                                  ELSE m1.tr[t]],
                       !.st = [state \in DOMAIN m1.st |->
                                  IF state \in m1.states THEN State_reverse(m1.st[state])
                                  ELSE m1.st[state]]])
        WithFinal(f) == Reversed(f.final, f.mach)
    IN  WithFinal(Machine__final(m))

(* automaton.py:317-373  Machine.dfa.  Line 327 constructs the new machine *)
(* with self.__class__(), and every class's constructor ends at line 100.  *)
Machine_dfa(m) == Machine_init(FALSE, NoCode)

(* automaton.py:249-280  Machine.copy.  Its first statement, line 258, is  *)
(* mach = self.__class__(): the constructor of the receiver's class, which *)
(* ends at line 100 for every class, before any state is mapped.           *)
Machine_copy(m) == Machine_init(FALSE, NoCode)

(* states.py:18-42  _all_eps: every transition of the table has priority  *)
(* 0, the priority of class Epsilon alone.                                 *)
_all_eps(m, trans_tab) == \A t \in trans_tab : m.tr[t].cls = "Epsilon"

(* states.py:234-244  State.eps_in: the cached answer when there is one,   *)
(* else _all_eps of the incoming transitions, which is cached.             *)
State_eps_in(m, self) ==
    LET value == IF m.st[self].eps_in # <<>> THEN m.st[self].eps_in[1]
                 ELSE _all_eps(m, m.st[self].trans_in)
    IN  [mach |-> [m EXCEPT !.st[self].eps_in = <<value>>], value |-> value]

(* states.py:246-256  State.eps_out                                        *)
State_eps_out(m, self) ==
    LET value == IF m.st[self].eps_out # <<>> THEN m.st[self].eps_out[1]
                 ELSE _all_eps(m, m.st[self].trans_out)
    IN  [mach |-> [m EXCEPT !.st[self].eps_out = <<value>>], value |-> value]

(* automaton.py:182-206  Machine._add_start: the machine it leaves and the *)
(* state it returns                                                        *)
Machine__add_start(m) ==
    LET old == m.start[1]
        r == Machine__new_state(m, m.st[old].accepting, m.st[old].code)
        m1 == State_transition_Epsilon(r.mach, r.new, old)
    IN  [mach |-> [m1 EXCEPT !.st[old].accepting = FALSE,
                             !.st[old].code = NoCode,
                             !.accepting = @ \ {old},
                             !.start = <<r.new>>],
         new |-> r.new]

(* A repeat instruction as the caller wrote it: an integer n, one of the   *)
(* strings of sym, a pair (lo, hi) whose elements are None, an integer or  *)
(* a string, or a value of another shape.                                  *)
RSpec(kind, n, sym, lo, hi) ==
    [kind |-> kind, n |-> n, sym |-> sym, lo |-> lo, hi |-> hi]
RElem(t, v) == [t |-> t, v |-> v]
RNone == RElem("none", 0)

(* automaton.py:700-727  the canonical (min_cnt, max_cnt) of repeat.  An   *)
(* integer passes line 701 unvalidated.  Every other value reaches line    *)
(* 705, `other in _match_equiv`, a name the module never binds (the table  *)
(* of line 24 is _repeat_equiv): NameError, before the pair is looked at.  *)
Matcher_repeat_counts(other) ==
    IF other.kind = "int"
    THEN [exc |-> "none", min_cnt |-> other.n, max_cnt |-> <<other.n>>]
    ELSE [exc |-> "NameError", min_cnt |-> 0, max_cnt |-> <<>>]

(* automaton.py:748-757  the step of repeat that makes a machine optional  *)
Matcher_repeat_optional(m) ==
    LET Linked(start, u) ==
            MOutcome(State_transition_Epsilon(u.mach, start, u.new), "none")
        WithEpsIn(start, final, i) ==
            Linked(start, IF i.value THEN [mach |-> i.mach, new |-> final]
                          ELSE Machine__unify_accepting(i.mach))
        WithFinal(start, f) ==
            IF f.final = <<>> THEN MOutcome(f.mach, "AttributeError")
            ELSE WithEpsIn(start, f.final[1], State_eps_in(f.mach, f.final[1]))
        WithStart(s) == WithFinal(s.new, Machine__final(s.mach))
        WithEpsOut(e) ==
            WithStart(IF e.value THEN [mach |-> e.mach, new |-> e.mach.start[1]]
                      ELSE Machine__add_start(e.mach))
    IN  WithEpsOut(State_eps_out(m, m.start[1]))

(* automaton.py:679-763  Matcher.repeat.  max_cnt is the integer given, so *)
(* total is that integer (line 730) and line 744 never adds the loop of an *)
(* open interval.  With total >= 2 line 738 calls self.copy(), which       *)
(* raises; otherwise self is the only machine of the loop of line 741.     *)
Matcher_repeat(m, other) ==
    LET Counted(c, m1) ==
            IF c.exc # "none" THEN MOutcome(m, c.exc)
            ELSE IF c.max_cnt[1] >= 2 THEN MOutcome(m1, Machine_copy(m1).exc)
            ELSE IF 0 >= c.min_cnt THEN Matcher_repeat_optional(m1)
            ELSE MOutcome(m1, "none")
    IN  Counted(Matcher_repeat_counts(other),
                IF Cardinality(m.accepting) > 1
                THEN Machine__unify_accepting(m).mach
                ELSE m)

(* The operand of concat, alternate or action is a machine built by        *)
(* another expression; in the interpreter its states and transitions are   *)
(* objects of the one heap.  Rebase gives the operand the identities that  *)
(* follow those of the receiver, and Absorb puts both in one heap.         *)
Rebase(other, ds, dt) ==
    LET Moved ==
            [other EXCEPT
                !.start = IF @ = <<>> THEN <<>> ELSE <<@[1] + ds>>,
                !.accepting = {x + ds : x \in @},
                !.states = {x + ds : x \in @},
                !.final_cache = IF @ = <<>> THEN <<>> ELSE <<@[1] + ds>>,
                !.st = [x \in {y + ds : y \in DOMAIN other.st} |->
                           [other.st[x - ds] EXCEPT !.trans_in = {t + dt : t \in @},
                                                    !.trans_out = {t + dt : t \in @}]],
                !.tr = [t \in {u + dt : u \in DOMAIN other.tr} |->
                           [other.tr[t - dt] EXCEPT !.state_out = @ + ds,
                                                    !.state_in = @ + ds]]]
    IN  IF "start_codes" \in DOMAIN other
        THEN [Moved EXCEPT !.start_codes = [code \in DOMAIN @ |-> @[code] + ds]]
        ELSE Moved

Rebased(m, other) ==
    Rebase(other, Cardinality(DOMAIN m.st), Cardinality(DOMAIN m.tr))

Absorb(m, o) == [m EXCEPT !.st = o.st @@ m.st, !.tr = o.tr @@ m.tr]

(* The operand o as a machine over the heap of h                           *)
OnHeap(o, h) == [o EXCEPT !.st = h.st, !.tr = h.tr]

(* automaton.py:608-637  Matcher.concat.  self._final is None when self    *)
(* has no accepting state, and line 630 then raises AttributeError.        *)
Matcher_concat(m, other, isMatcher) ==
    LET Linked(o, final, m2) ==
            MOutcome([m2 EXCEPT !.st[final].accepting = FALSE,
                                !.accepting = o.accepting,
                                !.final_cache = <<>>],
                     "none")
        WithFinal(o, f) ==
            IF f.final = <<>> THEN MOutcome(f.mach, "AttributeError")
            ELSE Linked(o, f.final[1],
                        State_transition_Epsilon(f.mach, f.final[1], o.start[1]))
        Merged(o) ==
            WithFinal(o, Machine__final([Absorb(m, o) EXCEPT !.states = @ \cup o.states]))
    IN  IF ~isMatcher THEN MOutcome(m, "TypeError")
        ELSE Merged(Rebased(m, other))

(* automaton.py:639-677  Matcher.alternate.  Line 670 passes Epsilon, a    *)
(* name the module never binds (the class is transitions.Epsilon), so the  *)
(* call ends with NameError once the start and final states of self have   *)
(* been prepared and the state sets merged; with no accepting state        *)
(* self._final is None and line 662 raises AttributeError before that.     *)
Matcher_alternate(m, other, isMatcher) ==
    LET Merged(o, m2) == MOutcome([m2 EXCEPT !.states = @ \cup o.states], "NameError")
        WithEpsIn(o, i) ==
            Merged(o, IF ~i.value THEN Machine__unify_accepting(i.mach).mach
                      ELSE i.mach)
        WithFinal(o, f) ==
            IF f.final = <<>> THEN MOutcome(f.mach, "AttributeError")
            ELSE WithEpsIn(o, State_eps_in(f.mach, f.final[1]))
        WithEpsOut(o, e) ==
            WithFinal(o, Machine__final(IF ~e.value
                                        THEN Machine__add_start(e.mach).mach
                                        ELSE e.mach))
        Absorbed(o) == WithEpsOut(o, State_eps_out(Absorb(m, o), m.start[1]))
    IN  IF ~isMatcher THEN MOutcome(m, "TypeError")
        ELSE Absorbed(Rebased(m, other))

(* states.py:154-200  State.transition for the class Action, whose merge  *)
(* (transitions.py:432-452) keeps, of the new transition and the Action    *)
(* transitions already between the two states, the first of them in        *)
(* ascending order of precedence.  sorted() is stable and is given a set,  *)
(* so among the transitions of least precedence the one kept is the one    *)
(* the set happens to produce first, which may be any of them: tie picks   *)
(* it, counting from the newest (0 is the new transition when it is one of *)
(* them).                                                                  *)
State_transition_Action(m, self, next_state, action, precedence, name, tie) ==
    LET trans == Cardinality(DOMAIN m.tr) + 1
        others == {t \in m.st[self].trans_out :
                      m.tr[t].state_in = next_state /\ m.tr[t].cls = "Action"}
        Prec(t) == IF t = trans THEN precedence ELSE m.tr[t].precedence
        least == {t \in others \cup {trans} :
                     \A u \in others \cup {trans} : Prec(t) <= Prec(u)}
        update == CHOOSE t \in least :
                      Cardinality({u \in least : u > t}) = tie % Cardinality(least)
        st1 == [m.st EXCEPT ![self].trans_out = (@ \ others) \cup {update}]
        st2 == [st1 EXCEPT ![next_state].trans_in = (@ \ others) \cup {update}]
        st3 == [st2 EXCEPT ![next_state].eps_in = <<>>]
        st4 == [st3 EXCEPT ![self].eps_out = <<>>]
    IN  [m EXCEPT !.st = st4,
                  !.tr = (trans :> [cls |-> "Action", state_out |-> self,
                                    state_in |-> next_state, cset |-> <<>>,
                                    action |-> action, precedence |-> precedence,
                                    name |-> name]) @@ m.tr]

(* automaton.py:785-800  Lexer._get_start_by_code: the lexer it leaves and *)
(* the state it returns.  A lexer has one more field, start_codes, the     *)
(* index from start code to start state.                                   *)
Lexer__get_start_by_code(m, code) ==
    IF code \in DOMAIN m.start_codes
    THEN [mach |-> m, state |-> m.start_codes[code]]
    ELSE LET r == Machine__new_state(m, TRUE, <<code>>)
         IN  [mach |-> [r.mach EXCEPT !.start_codes = (code :> r.new) @@ @],
              state |-> r.new]

(* automaton.py:814-863  Lexer.action.  mach._final (line 857) works on    *)
(* the operand: when it has several accepting states the state that        *)
(* unifies them joins mach._states, which line 845 has already read.  With *)
(* no accepting state it is None and line 857 raises AttributeError.       *)
Lexer_action(m, mach, action, precedence, code, exit_code, name, tie) ==
    LET Acted(state, m4) == MOutcome([m4 EXCEPT !.st[state].accepting = FALSE], "none")
        WithFinal(final, m2, f) ==
            IF f.final = <<>>
            THEN MOutcome([m2 EXCEPT !.st = f.mach.st, !.tr = f.mach.tr],
                          "AttributeError")
            ELSE Acted(f.final[1],
                       State_transition_Action(
                           [m2 EXCEPT !.st = f.mach.st, !.tr = f.mach.tr],
                           f.final[1], final, action, precedence, name, tie))
        Entered(o, final, m2) == WithFinal(final, m2, Machine__final(OnHeap(o, m2)))
        WithStarts(o, start, e) ==
            Entered(o, e.state, State_transition_Epsilon(e.mach, start, o.start[1]))
        WithStart(o, s) ==
            WithStarts(o, s.state,
                       IF exit_code = <<>> THEN s
                       ELSE Lexer__get_start_by_code(s.mach, exit_code[1]))
        Merged(o) ==
            WithStart(o, Lexer__get_start_by_code(
                             [Absorb(m, o) EXCEPT !.states = @ \cup o.states], code))
    IN  Merged(Rebased(m, mach))

(* The start codes of the model in the order Python gives strings         *)
StartCodes == <<"", "a", "b">>

(* automaton.py:239-247  Machine._get_starts                               *)
Machine__get_starts(m) == <<m.start[1]>>

(* automaton.py:802-812  Lexer._get_starts: the start states sorted by     *)
(* start code                                                              *)
Lexer__get_starts(m) ==
    LET codes == SelectSeq(StartCodes, LAMBDA code : code \in DOMAIN m.start_codes)
    IN  [i \in 1..Len(codes) |-> m.start_codes[codes[i]]]

(* The orders in which a loop over a set may produce its members           *)
SetOrders(S) ==
    {order \in [1..Cardinality(S) -> S] :
        \A i, j \in 1..Cardinality(S) : i # j => order[i] # order[j]}

(* automaton.py:121-154  Machine.__iter__ (iter_states) is a generator     *)
(* function: the call runs nothing of the body and hands back a generator  *)
(* bound to the machine.  In the record, pc is where the generator stands  *)
(* ("created" before the first next(), "starts", "middle", "lasts"         *)
(* suspended at the yield of line 137, 149, 153, "done" when exhausted,    *)
(* "raised" when it ended in the exception exc), lexer tells whose         *)
(* _get_starts it calls, first is what the loop of line 134 has still to   *)
(* take from the list of start states, starts and lasts are the locals of  *)
(* these names, size and rest are the size of _states when the loop of     *)
(* line 145 started and the states it has still to produce, tail is what   *)
(* the loop of line 152 has still to produce, and out is what the          *)
(* generator has produced.                                                 *)
Machine___iter__(isLexer) ==
    [pc |-> "created", exc |-> "none", lexer |-> isLexer, first |-> <<>>,
     starts |-> {}, lasts |-> {}, size |-> 0, rest |-> {}, tail |-> {},
     out |-> <<>>]

(* automaton.py:133-153  next() on the generator of Machine.__iter__, run  *)
(* on the machine m as it is now, up to the next yield: the generators     *)
(* it may leave.  _get_starts() is called by the first next(); lasts is    *)
(* computed and the loop over _states started when the list of start       *)
(* states is exhausted; a set produces its members in an order of its      *)
(* own; and the loop over _states raises RuntimeError when the set has     *)
(* changed size since the loop started (_states is only ever added to, in  *)
(* place).  next() on a generator that has ended changes nothing.          *)
Machine___iter___next(m, gen) ==
    LET Yield(g, pc, state) == [g EXCEPT !.pc = pc, !.out = Append(@, state)]
        Lasts(g) ==
            IF g.tail = {} THEN {[g EXCEPT !.pc = "done"]}
            ELSE {[Yield(g, "lasts", state) EXCEPT !.tail = @ \ {state}] :
                     state \in g.tail}
        Middle(g) ==
            IF Cardinality(m.states) # g.size
            THEN {[g EXCEPT !.pc = "raised", !.exc = "RuntimeError"]}
            ELSE IF g.rest # {}
            THEN {[Yield(g, "middle", state) EXCEPT !.rest = @ \ {state}] :
                     state \in g.rest}
            ELSE Lasts(g)
        Enter(g) ==
            LET lasts == m.accepting \ g.starts
            IN  Middle([g EXCEPT !.lasts = lasts, !.tail = lasts,
                                 !.size = Cardinality(m.states),
                                 !.rest = m.states \ (g.starts \cup lasts)])
        Starts(g) ==
            IF g.first # <<>>
            THEN {[Yield(g, "starts", Head(g.first)) EXCEPT
                      !.first = Tail(@), !.starts = @ \cup {Head(g.first)}]}
            ELSE Enter(g)
    IN  CASE gen.pc = "created" ->
                Starts([gen EXCEPT !.first = IF gen.lexer
                                             THEN Lexer__get_starts(m)
                                             ELSE Machine__get_starts(m)])
          [] gen.pc = "starts" -> Starts(gen)
          [] gen.pc = "middle" -> Middle(gen)
          [] gen.pc = "lasts" -> Lasts(gen)
          [] OTHER -> {gen}

(* automaton.py:407-439  Matcher.match_cset.  start is a character set     *)
(* (isCset, with its ranges in cset) or an item, with an optional end,     *)
(* from which lines 431-432 construct the character set.                   *)
Matcher_match_cset(isCset, cset, start, hasEnd, end) ==
    LET exc == IF isCset THEN "none"
               ELSE CharSet_init_range(start, hasEnd, end).exc
    IN  IF exc # "none" THEN MOutcome(NoMachine, exc)
        ELSE Matcher_init

(* automaton.py:441-463  Matcher.match_str: line 453 constructs the        *)
(* machine first; for a string that is not empty the first turn of the     *)
(* loop adds a state (line 458) and then names final (line 459), which     *)
(* match_str never binds: NameError.                                       *)
Matcher_match_str(string) ==
    LET Chained(out) ==
            IF out.exc # "none" \/ Len(string) = 0 THEN out
            ELSE MOutcome(NoMachine, "NameError")
    IN  Chained(Matcher_init)

(***************************************************************************)
(* Vocabulary of the properties: the set a range list denotes, and the     *)
(* canonical form of the data model.                                       *)
(***************************************************************************)
Member(ranges, c) == \E i \in 1..Len(ranges) : ranges[i][1] <= c /\ c <= ranges[i][2]

RangeValid(rng) == MIN_CHAR <= rng[1] /\ rng[1] <= rng[2] /\ rng[2] <= MAX_CHAR

Canonical(ranges) ==
    /\ \A i \in 1..Len(ranges) : RangeValid(ranges[i])
    /\ \A i \in 1..(Len(ranges) - 1) : ranges[i][2] + 1 < ranges[i + 1][1]

(* Every end point lies where Probe samples, so agreement on Probe is      *)
(* agreement on every code point.                                          *)
Boundary == (MIN_CHAR..(MaxPoint + 1)) \cup ((MAX_CHAR - 2)..MAX_CHAR)

ProbeExact(ranges) ==
    \A i \in 1..Len(ranges) : ranges[i][1] \in Boundary /\ ranges[i][2] \in Boundary

RangePairs == {p \in Points \X Points : p[1] <= p[2]}

CanonLists ==
    {r \in UNION {[1..n -> RangePairs] : n \in 0..MaxRanges} : Canonical(r)}

(***************************************************************************)
(* plexgen/prioq.py.  The queue is the list PrioQ.items, a binary heap     *)
(* maintained by Python's heapq; KeyWrap compares the keys of the wrapped  *)
(* objects.  An entry of the disjoint() work queue is <<range, owners>>,   *)
(* owners being the list of the input sets (by position in the argument    *)
(* list) that the range came from.                                         *)
(***************************************************************************)
(* charset.py:489-490  the key routine given to PrioQ by disjoint()        *)
DisjointKey(x) == <<x[1][1], (x[1][2] - x[1][1]) + 1>>

(* prioq.py:71-84  KeyWrap.__lt__ on the keys (tuples compare in order)    *)
KeyWrapLt(x, y) ==
    LET kx == DisjointKey(x)
        ky == DisjointKey(y)
    IN  kx[1] < ky[1] \/ (kx[1] = ky[1] /\ kx[2] < ky[2])

(* heapq._siftdown(heap, startpos, pos), 0-based positions                 *)
RECURSIVE _siftdown(_, _, _, _)
_siftdown(heap, startpos, pos, newitem) ==
    IF pos > startpos
    THEN LET parentpos == (pos - 1) \div 2
             parent == heap[parentpos + 1]
         IN  IF KeyWrapLt(newitem, parent)
             THEN _siftdown([heap EXCEPT ![pos + 1] = parent], startpos,
                            parentpos, newitem)
             ELSE [heap EXCEPT ![pos + 1] = newitem]
    ELSE [heap EXCEPT ![pos + 1] = newitem]

(* heapq._siftup(heap, pos): the smaller child moves up until a leaf is    *)
(* reached, then the item is sifted down from there                        *)
RECURSIVE _siftup(_, _, _, _)
_siftup(heap, startpos, pos, newitem) ==
    LET endpos == Len(heap)
        childpos == (2 * pos) + 1
        rightpos == childpos + 1
        pick == IF rightpos < endpos
                   /\ ~KeyWrapLt(heap[childpos + 1], heap[rightpos + 1])
                THEN rightpos ELSE childpos
    IN  IF childpos < endpos
        THEN _siftup([heap EXCEPT ![pos + 1] = heap[pick + 1]], startpos, pick,
                     newitem)
        ELSE _siftdown([heap EXCEPT ![pos + 1] = newitem], startpos, pos, newitem)

(* prioq.py:169-177  PrioQ.push of one item (heapq.heappush)               *)
PrioQ_push(items, item) ==
    _siftdown(Append(items, item), 0, Len(items), item)

(* PrioQ.push with several items: they are pushed in order                 *)
RECURSIVE PrioQ_push_all(_, _)
PrioQ_push_all(items, new) ==
    IF new = <<>> THEN items
    ELSE PrioQ_push_all(PrioQ_push(items, Head(new)), Tail(new))

(* prioq.py:190-198  PrioQ.top                                             *)
PrioQ_top(items) == items[1]

(* prioq.py:179-188  PrioQ.pop (heapq.heappop): the queue that is left     *)
PrioQ_pop(items) ==
    LET lastelt == items[Len(items)]
        rest == SubSeq(items, 1, Len(items) - 1)
    IN  IF rest = <<>> THEN rest
        ELSE _siftup([rest EXCEPT ![1] = lastelt], 0, 0, lastelt)

(***************************************************************************)
(* charset.py:441-540  BaseCharSet.disjoint                                *)
(***************************************************************************)
(* charset.py:491-492  every range of every input set is pushed            *)
RECURSIVE DisjointEntries(_, _)
DisjointEntries(cset, idx) ==
    IF cset = <<>> THEN <<>>
    ELSE <<(<<Head(cset), <<idx>>>>)>> \o DisjointEntries(Tail(cset), idx)

RECURSIVE DisjointFill(_, _, _)
DisjointFill(items, csets, i) ==
    IF i > Len(csets) THEN items
    ELSE DisjointFill(PrioQ_push_all(items, DisjointEntries(csets[i], i)),
                      csets, i + 1)

(* charset.py:499-502  collapse duplicate ranges: <<queue, csets>>         *)
RECURSIVE DisjointCollapse(_, _, _)
DisjointCollapse(items, rng, csets) ==
    IF items # <<>> /\ PrioQ_top(items)[1] = rng
    THEN DisjointCollapse(PrioQ_pop(items), rng, csets \o PrioQ_top(items)[2])
    ELSE <<items, csets>>

(* A faulty superset scan: an overlapping range that starts later does not *)
(* clamp the end of the produced range.                                    *)
RECURSIVE DisjointSupersetsNoClamp(_, _, _, _, _)
DisjointSupersetsNoClamp(items, start, end, fcsets, supersets) ==
    IF items = <<>> THEN <<items, end, fcsets, supersets>>
    ELSE IF PrioQ_top(items)[1][1] <= start
         THEN DisjointSupersetsNoClamp(PrioQ_pop(items), start, end,
                                       fcsets \o PrioQ_top(items)[2],
                                       Append(supersets, PrioQ_top(items)))
         ELSE <<items, end, fcsets, supersets>>

(* charset.py:511-525  find the supersets and clamp the end:               *)
(* <<queue, end, fcsets, supersets>>                                       *)
RECURSIVE DisjointSupersets(_, _, _, _, _)
DisjointSupersets(items, start, end, fcsets, supersets) ==
    IF items = <<>> THEN <<items, end, fcsets, supersets>>
    ELSE IF PrioQ_top(items)[1][1] <= start
         THEN DisjointSupersets(PrioQ_pop(items), start, end,
                                fcsets \o PrioQ_top(items)[2],
                                Append(supersets, PrioQ_top(items)))
         ELSE <<items,
                IF PrioQ_top(items)[1][1] <= end
                THEN PrioQ_top(items)[1][1] - 1 ELSE end,
                fcsets, supersets>>

(* charset.py:534-535  the supersets, cut at the new start                 *)
RECURSIVE DisjointSplit(_, _)
DisjointSplit(supersets, start) ==
    IF supersets = <<>> THEN <<>>
    ELSE <<(<<Range(start, Head(supersets)[1][2]), Head(supersets)[2]>>)>>
         \o DisjointSplit(Tail(supersets), start)

(* charset.py:495-528  the first half of a pass of the work loop on a      *)
(* non-empty queue, up to the yield: the frame the generator is suspended  *)
(* with.  rng and csets are the working range and its owners, emit the     *)
(* pair <<range, fcsets>> handed to cls(start, end), supersets the entries *)
(* taken off the queue, items the queue as the pops left it.               *)
DisjointYield(items) ==
    LET first == PrioQ_top(items)
        rng == first[1]
        Scanned(csets, sup) ==
            [rng |-> rng, csets |-> csets,
             emit |-> <<Range(rng[1], sup[2]), sup[3]>>,
             supersets |-> sup[4], items |-> sup[1]]
        Collapsed(col) ==
            Scanned(col[2], DisjointSupersets(col[1], rng[1], rng[2], col[2], <<>>))
    IN  Collapsed(DisjointCollapse(PrioQ_pop(items), rng, first[2]))

(* A faulty second half: the working range is pushed back whether or not   *)
(* any of it is left.                                                      *)
DisjointResume_always_splits(items, frame) ==
    LET start == frame.emit[1][2] + 1
    IN  PrioQ_push(PrioQ_push_all(items, DisjointSplit(frame.supersets, start)),
                   <<Range(start, frame.rng[2]), frame.csets>>)

(* charset.py:531-540  the second half of the pass, run when the consumer  *)
(* asks for the next pair: the supersets are cut at the new start and      *)
(* pushed, then the rest of the working range if line 539 finds one.       *)
DisjointResume(items, frame) ==
    LET start == frame.emit[1][2] + 1
        Rest(q1) ==
            IF start < frame.rng[2]
            THEN PrioQ_push(q1, <<Range(start, frame.rng[2]), frame.csets>>)
            ELSE q1
    IN  Rest(PrioQ_push_all(items, DisjointSplit(frame.supersets, start)))

(***************************************************************************)
(* States and transitions used without a machine.  The graph is a heap     *)
(* like a machine's (st, tr) with one more field, cs, the CharSet objects  *)
(* the caller made: here the cset of a MatchChar transition is the         *)
(* identity of its CharSet in cs, since MatchChar.merge updates that       *)
(* object itself and every transition given the same object sees it.       *)
(***************************************************************************)
(* transitions.py:331-350  MatchChar.merge: line 348 runs cset |= the cset *)
(* of each other transition, CharSet.__ior__ on the object in hand.        *)
RECURSIVE MatchChar_merge(_, _, _)
MatchChar_merge(m, cset, others) ==
    IF others = {} THEN m
    ELSE LET other == CHOOSE t \in others : TRUE
             Updated(out) ==
                 [m EXCEPT !.cs[cset] = [ranges |-> out.ranges, len |-> out.len]]
         IN  MatchChar_merge(
                 Updated(CharSet_ior(m.cs[cset], m.cs[m.tr[other].cset].ranges)),
                 cset, others \ {other})

(* states.py:154-200  State.transition for the class MatchChar: the merged *)
(* transition is the new one, which replaces the others.                   *)
State_transition_MatchChar(m, self, next_state, cset) ==
    LET trans == Cardinality(DOMAIN m.tr) + 1
        others == {t \in m.st[self].trans_out :
                      m.tr[t].state_in = next_state /\ m.tr[t].cls = "MatchChar"}
        Linked(m1) ==
            [m1 EXCEPT
               !.st = [[[[m1.st EXCEPT ![self].trans_out = (@ \ others) \cup {trans}]
                            EXCEPT ![next_state].trans_in = (@ \ others) \cup {trans}]
                            EXCEPT ![next_state].eps_in = <<>>]
                            EXCEPT ![self].eps_out = <<>>],
               !.tr = (trans :> [cls |-> "MatchChar", state_out |-> self,
                                 state_in |-> next_state, cset |-> cset]) @@ m1.tr]
    IN  Linked(MatchChar_merge(m, cset, others))

(* transitions.py:265-297  MatchChar.disjoint is a generator function: the *)
(* call runs none of its body and returns the generator, which holds the   *)
(* list it was given.  frame is the pass of CharSet.disjoint the generator *)
(* is suspended in (with the work queue), out the groups yielded so far.   *)
MatchChar_disjoint(transitions) ==
    [transitions |-> transitions, pc |-> "created", frame |-> <<>>, out |-> <<>>]

(* transitions.py:284-297  next() on the generator, on the graph as it is  *)
(* at that moment.  The first next() builds cset_map (line 284), keyed by  *)
(* the identity of the cset, so that it keeps the last transition of the   *)
(* list that carries a given CharSet object, and fills the work queue of   *)
(* CharSet.disjoint from the ranges the CharSets hold then; a later next() *)
(* finishes the suspended pass (charset.py:531-540).  Either runs the loop *)
(* to its next yield and builds the group from the ends the transitions    *)
(* have now (lines 290-297), or finds the queue empty, or ends in the      *)
(* ValueError of an inverted range (charset.py:904).  The owners           *)
(* CharSet.disjoint reports are positions of the list, each standing for   *)
(* the CharSet object given there.                                         *)
MatchChar_disjoint_next(m, gen) ==
    LET transitions == gen.transitions
        csets == [i \in 1..Len(transitions) |->
                     m.cs[m.tr[transitions[i]].cset].ranges]
        cset_map(i) ==
            transitions[CHOOSE j \in 1..Len(transitions) :
                /\ m.tr[transitions[j]].cset = m.tr[transitions[i]].cset
                /\ \A k \in (j + 1)..Len(transitions) :
                      m.tr[transitions[k]].cset # m.tr[transitions[i]].cset]
        Group(emit) ==
            [k \in 1..Len(emit[2]) |->
                [cls |-> "MatchChar",
                 state_out |-> m.tr[cset_map(emit[2][k])].state_out,
                 state_in |-> m.tr[cset_map(emit[2][k])].state_in,
                 cset |-> <<emit[1]>>]]
        Yielded(frame) ==
            IF frame.emit[1][1] > frame.emit[1][2]
            THEN [gen EXCEPT !.pc = "raised", !.frame = <<>>]
            ELSE [gen EXCEPT !.pc = "yielded", !.frame = <<frame>>,
                             !.out = Append(@, Group(frame.emit))]
        Pass(items) ==
            IF items = <<>>
            THEN [gen EXCEPT !.pc = "done", !.frame = <<>>]
            ELSE Yielded(DisjointYield(items))
    IN  IF gen.pc = "created"
        THEN Pass(DisjointFill(<<>>, csets, 1))
        ELSE Pass(DisjointResume(gen.frame[1].items, gen.frame[1]))

(* A faulty traversal: the outgoing transitions of every priority are     *)
(* followed.                                                               *)
EpsTargets_any_priority(m, state, visited) ==
    {m.tr[t].state_in : t \in m.st[state].trans_out} \ visited

(* states.py:94-103  one turn of the loop of eps_closure for the state     *)
(* taken off the queue: the states its outgoing priority-0 transitions     *)
(* lead to that have not been visited.                                     *)
EpsTargets(m, state, visited) ==
    {m.tr[t].state_in : t \in {x \in m.st[state].trans_out :
                                  m.tr[x].cls = "Epsilon"}} \ visited

(***************************************************************************)
(* State.                                                                  *)
(*   algA, algB    the operands of a set operation                         *)
(*   algOp, algRes the operation applied to them and what it returned      *)
(*   djIn          the character sets given to CharSet.disjoint            *)
(*   djQ           its work queue (PrioQ.items)                            *)
(*   djOut         the pairs <<range of D, owners>> produced so far        *)
(*   djPc          where the generator stands: "start" before the queue is *)
(*                 filled, "loop" at the test of the work loop, "yielded"  *)
(*                 suspended at the yield of line 528, "done" when         *)
(*                 exhausted, "raised" when it ended in an exception       *)
(*   djFrame       the locals of the pass the generator is suspended in,   *)
(*                 <<>> when it is not suspended                           *)
(*   csPc, csRanges, csLen, csExc, csLenRes                                *)
(*                 one mutable CharSet (see SpecCSet)                      *)
(*   mScript, mPc, mMach, mExc, mRes                                       *)
(*                 one call chain on a machine (see SpecMach)              *)
(*   sG, sLog, sRes, sGen                                                  *)
(*                 a graph of states and transitions, the calls made on it,*)
(*                 what the last call returned, and the generator that     *)
(*                 MatchChar.disjoint returned (see SpecState)             *)
(*   clIn, clWorkq, clVisited, clStates, clPc                              *)
(*                 one run of eps_closure on the graph (see SpecClosure)   *)
(***************************************************************************)
VARIABLES algA, algB, algOp, algRes,
          djIn, djQ, djOut, djPc, djFrame,
          csPc, csRanges, csLen, csExc, csLenRes,
          mScript, mPc, mMach, mExc, mRes,
          sG, sLog, sRes, sGen,
          clIn, clWorkq, clVisited, clStates, clPc

algVars == <<algA, algB, algOp, algRes>>
djVars == <<djIn, djQ, djOut, djPc, djFrame>>
csVars == <<csPc, csRanges, csLen, csExc, csLenRes>>
mVars == <<mScript, mPc, mMach, mExc, mRes>>
sVars == <<sG, sLog, sRes, sGen>>
clVars == <<clIn, clWorkq, clVisited, clStates, clPc>>
vars == <<algA, algB, algOp, algRes, djIn, djQ, djOut, djPc, djFrame,
          csPc, csRanges, csLen, csExc, csLenRes, mScript, mPc, mMach, mExc,
          mRes, sG, sLog, sRes, sGen, clIn, clWorkq, clVisited, clStates, clPc>>

(* The parts of the state a specification does not use stay as they are.   *)
AlgIdle == algA = <<>> /\ algB = <<>> /\ algOp = "none" /\ algRes = <<>>
DjIdle ==
    djIn = <<>> /\ djQ = <<>> /\ djOut = <<>> /\ djPc = "idle" /\ djFrame = <<>>
CsIdle ==
    /\ csPc = "idle"
    /\ csRanges = <<>>
    /\ csLen = <<>>
    /\ csExc = "none"
    /\ csLenRes = <<>>
MIdle ==
    mScript = <<>> /\ mPc = "idle" /\ mMach = <<>> /\ mExc = "none" /\ mRes = <<>>
SIdle == sG = <<>> /\ sLog = <<>> /\ sRes = <<>> /\ sGen = <<>>
ClIdle ==
    /\ clIn = {}
    /\ clWorkq = <<>>
    /\ clVisited = {}
    /\ clStates = {}
    /\ clPc = "idle"

FullSet == <<Range(MIN_CHAR, MAX_CHAR)>>
EmptySet == <<>>

(***************************************************************************)
(* SpecAlg: the value-returning set operations applied to two canonical    *)
(* character sets.                                                         *)
(***************************************************************************)
AlgInit ==
    /\ algA \in CanonLists
    /\ algB \in CanonLists
    /\ algOp = "none"
    /\ algRes = <<>>
    /\ DjIdle
    /\ CsIdle
    /\ MIdle
    /\ SIdle
    /\ ClIdle

AlgApply(op, res) ==
    /\ algOp = "none"
    /\ algOp' = op
    /\ algRes' = res
    /\ UNCHANGED <<algA, algB>>
    /\ UNCHANGED <<djVars, csVars, mVars, sVars, clVars>>

Intersection == AlgApply("intersection", _intersection(algA, algB))
Union == AlgApply("union", _union(algA, algB))
Difference == AlgApply("difference", _difference(algA, algB))
SymDifference == AlgApply("sym_difference", _sym_difference(algA, algB))
(* s | ~s  and  s & ~s  (the second operand is not used)                   *)
OrInverse == algB = <<>> /\ AlgApply("or_inverse", CSetOr(algA, CSetInvert(algA)))
AndInverse == algB = <<>> /\ AlgApply("and_inverse", CSetAnd(algA, CSetInvert(algA)))
IsDisjoint == AlgApply("isdisjoint", <<CSetIsDisjoint(algA, algB)>>)

AlgNext ==
    \/ Intersection
    \/ Union
    \/ Difference
    \/ SymDifference
    \/ OrInverse
    \/ AndInverse
    \/ IsDisjoint

SpecAlg == AlgInit /\ [][AlgNext]_vars

(***************************************************************************)
(* SpecDisjoint: CharSet.disjoint run to exhaustion on up to               *)
(* DjMaxSets character sets over the code points 0..DjMaxPoint.            *)
(***************************************************************************)
DjPoints == MIN_CHAR..DjMaxPoint

DjLists ==
    {r \in UNION {[1..n -> {p \in DjPoints \X DjPoints : p[1] <= p[2]}] :
                    n \in 0..MaxRanges} : Canonical(r)}

DjInit ==
    /\ djIn \in UNION {[1..n -> DjLists] : n \in 1..DjMaxSets}
    /\ djQ = <<>>
    /\ djOut = <<>>
    /\ djPc = "start"
    /\ djFrame = <<>>
    /\ AlgIdle
    /\ CsIdle
    /\ MIdle
    /\ SIdle
    /\ ClIdle

(* charset.py:489-492  the queue is set up from the input sets             *)
DisjointStart ==
    /\ djPc = "start"
    /\ djQ' = DisjointFill(<<>>, djIn, 1)
    /\ djPc' = "loop"
    /\ UNCHANGED <<djIn, djOut, djFrame>>
    /\ UNCHANGED <<algVars, csVars, mVars, sVars, clVars>>

(* charset.py:495-528  a pass of the work loop up to its yield: the pair   *)
(* is produced by cls(start, end), which raises ValueError when            *)
(* start > end (line 904); otherwise the generator is suspended and the    *)
(* consumer holds the pair.                                                *)
DisjointProduce ==
    /\ djPc = "loop"
    /\ djQ # <<>>
    /\ LET Yielded(frame) ==
               /\ djQ' = frame.items
               /\ IF frame.emit[1][1] > frame.emit[1][2]
                  THEN /\ djPc' = "raised"
                       /\ UNCHANGED <<djOut, djFrame>>
                  ELSE /\ djOut' = Append(djOut, frame.emit)
                       /\ djFrame' = <<[rng |-> frame.rng, csets |-> frame.csets,
                                        emit |-> frame.emit,
                                        supersets |-> frame.supersets]>>
                       /\ djPc' = "yielded"
       IN  Yielded(DisjointYield(djQ))
    /\ UNCHANGED djIn
    /\ UNCHANGED <<algVars, csVars, mVars, sVars, clVars>>

(* charset.py:531-540  the consumer asks for the next pair: the generator  *)
(* finishes the pass it was suspended in and is back at the loop test      *)
DisjointContinue ==
    /\ djPc = "yielded"
    /\ djQ' = DisjointResume(djQ, djFrame[1])
    /\ djFrame' = <<>>
    /\ djPc' = "loop"
    /\ UNCHANGED <<djIn, djOut>>
    /\ UNCHANGED <<algVars, csVars, mVars, sVars, clVars>>

(* charset.py:495  the queue is empty: the generator is exhausted          *)
DisjointEnd ==
    /\ djPc = "loop"
    /\ djQ = <<>>
    /\ djPc' = "done"
    /\ UNCHANGED <<djIn, djQ, djOut, djFrame>>
    /\ UNCHANGED <<algVars, csVars, mVars, sVars, clVars>>

DjNext ==
    \/ DisjointStart
    \/ DisjointProduce
    \/ DisjointContinue
    \/ DisjointEnd

(* A consumer that stops asking leaves the generator suspended for good:   *)
(* a run that stutters at "yielded".                                       *)
SpecDisjoint == DjInit /\ [][DjNext]_vars

(* charset.py:494-540  the generator has work to do: it has not started,   *)
(* it is suspended in a pass, or its loop's guard holds.  DisjointStart,   *)
(* DisjointProduce and DisjointContinue can be taken, and change the       *)
(* state, exactly in these states.                                         *)
DjBusy == djPc \in {"start", "yielded"} \/ (djPc = "loop" /\ djQ # <<>>)

(* The consumer iterates to the end (a for loop, list()), and the          *)
(* generator is sequential code: its loop runs on as long as the queue     *)
(* holds a range.  The last conjunct is weak fairness of                   *)
(* DisjointStart \/ DisjointProduce \/ DisjointContinue, with the          *)
(* enabling condition written out as DjBusy and the step recognised by the *)
(* state it leaves.                                                        *)
SpecDisjointFair ==
    /\ SpecDisjoint
    /\ WF_vars(DisjointEnd)
    /\ ([]<>(~DjBusy) \/ []<><<DjBusy>>_vars)

(***************************************************************************)
(* SpecCSet: one mutable CharSet, from its construction through any        *)
(* sequence of mutators and len() calls.  csPc is "new" before the         *)
(* constructor has run, "live" once it has returned and "failed" if it     *)
(* raised; csLen is the set's _len_cache, csExc the exception of the last  *)
(* call and csLenRes what the last call returned when it was a len() that  *)
(* returned (<<>> after any other call, and after a len() that raised).    *)
(***************************************************************************)
CsPoints == (MIN_CHAR..CsMaxPoint) \cup {MAX_CHAR}

CsInts == CsPoints \cup {MIN_CHAR - 1, MAX_CHAR + 1}

CsItems == [kind : {"int"}, cp : CsInts] \cup [kind : {"chr"}, cp : CsPoints]

CsOthers ==
    {r \in UNION {[1..n -> {p \in CsPoints \X CsPoints : p[1] <= p[2]}] :
                    n \in 0..MaxRanges} : Canonical(r)}

CsSeqs == UNION {[1..n -> CsItems] : n \in 0..MaxSeqLen}

(* The exploration keeps to range lists whose ends are near the sampled    *)
(* code points (pop() alone would walk a set through all of its members)   *)
(* and that hold at most MaxRanges ranges (a list that its constructor     *)
(* left out of canonical form can grow range by range).  Every call is     *)
(* followed from every set within these bounds, canonical or not.          *)
CsWindow == ((MIN_CHAR - 2)..(CsMaxPoint + 2)) \cup ((MAX_CHAR - 2)..(MAX_CHAR + 2))

CsExplored(ranges) ==
    /\ Len(ranges) <= MaxRanges
    /\ \A i \in 1..Len(ranges) : ranges[i][1] \in CsWindow /\ ranges[i][2] \in CsWindow

CsInit ==
    /\ csPc = "new"
    /\ csRanges = <<>>
    /\ csLen = NoLen
    /\ csExc = "none"
    /\ csLenRes = <<>>
    /\ AlgIdle
    /\ DjIdle
    /\ MIdle
    /\ SIdle
    /\ ClIdle

CsSelf == [ranges |-> csRanges, len |-> csLen]

CsConstruct(out) ==
    /\ csPc = "new"
    /\ csPc' = IF out.exc = "none" THEN "live" ELSE "failed"
    /\ csRanges' = out.ranges
    /\ csLen' = out.len
    /\ csExc' = out.exc
    /\ UNCHANGED csLenRes
    /\ UNCHANGED <<algVars, djVars, mVars, sVars, clVars>>

CsMutate(out) ==
    /\ csPc = "live"
    /\ CsExplored(out.ranges)
    /\ csRanges' = out.ranges
    /\ csLen' = out.len
    /\ csExc' = out.exc
    /\ csLenRes' = <<>>
    /\ UNCHANGED csPc
    /\ UNCHANGED <<algVars, djVars, mVars, sVars, clVars>>

NewEmpty == CsConstruct(CharSet_init_empty)
NewRange ==
    \E start \in CsItems, hasEnd \in BOOLEAN, end \in CsItems :
        /\ end.kind = start.kind
        /\ ~hasEnd => end = start
        /\ CsConstruct(CharSet_init_range(start, hasEnd, end))
NewTuple == \E pair \in CsInts \X CsInts : CsConstruct(CharSet_init_tuple(pair))
NewCopy == \E other \in CsOthers : CsConstruct(CharSet_init_copy(other))
NewSeq == \E items \in CsSeqs : CsConstruct(CharSet_init_seq(items))

Add == \E item \in CsItems : CsMutate(CharSet_add(CsSelf, item))
Discard == \E item \in CsItems : CsMutate(CharSet_discard(CsSelf, item))
Remove == \E item \in CsItems : CsMutate(CharSet_remove(CsSelf, item))
Pop == CsMutate(CharSet_pop(CsSelf))
Clear == CsMutate(CharSet_clear(CsSelf))
IAnd == \E other \in CsOthers : CsMutate(CharSet_iand(CsSelf, other))
IOr == \E other \in CsOthers : CsMutate(CharSet_ior(CsSelf, other))
ISub == \E other \in CsOthers : CsMutate(CharSet_isub(CsSelf, other))
IXor == \E other \in CsOthers : CsMutate(CharSet_ixor(CsSelf, other))

(* len(s): charset.py:616-631 fills the cache and returns it; the builtin  *)
(* len() raises ValueError when __len__ returns a negative number.         *)
LenCall ==
    /\ csPc = "live"
    /\ csLen' = CharSet_len(CsSelf)
    /\ csLenRes' = IF csLen'[1] < 0 THEN <<>> ELSE csLen'
    /\ csExc' = IF csLen'[1] < 0 THEN "ValueError" ELSE "none"
    /\ UNCHANGED <<csPc, csRanges>>
    /\ UNCHANGED <<algVars, djVars, mVars, sVars, clVars>>

CsNext ==
    \/ NewEmpty
    \/ NewRange
    \/ NewTuple
    \/ NewCopy
    \/ NewSeq
    \/ Add
    \/ Discard
    \/ Remove
    \/ Pop
    \/ Clear
    \/ IAnd
    \/ IOr
    \/ ISub
    \/ IXor
    \/ LenCall

SpecCSet == CsInit /\ [][CsNext]_vars

(***************************************************************************)
(* SpecMach: a client evaluates one call chain: a constructor or           *)
(* class-method call (mScript.build), then the methods of                  *)
(* mScript.methods on what it returned, each with its arguments of         *)
(* mScript.args.  mPc counts the calls evaluated, mMach is the machine in  *)
(* hand, mExc the exception raised and mRes the generator iter_states      *)
(* returned, with the states it has produced.  An exception ends the       *)
(* chain: a method whose receiver expression raised is not run, and the    *)
(* chain raises that exception.  iter_states leaves the machine in hand,   *)
(* so a method after it is a call on the machine made while the client     *)
(* holds the iterator.                                                     *)
(***************************************************************************)
MItem0 == [kind |-> "int", cp |-> MIN_CHAR]

MBuild(fn, accepting, code, isCset, cset, start, hasEnd, end, string) ==
    [fn |-> fn, accepting |-> accepting, code |-> code, isCset |-> isCset,
     cset |-> cset, start |-> start, hasEnd |-> hasEnd, end |-> end,
     string |-> string]

MStrings == UNION {[1..n -> CsPoints] : n \in 0..MaxSeqLen}

MBuilds ==
    {MBuild("Machine", a, c, FALSE, <<>>, MItem0, FALSE, MItem0, <<>>) :
        a \in BOOLEAN, c \in {NoCode, <<"c">>}}
    \cup {MBuild(fn, FALSE, NoCode, FALSE, <<>>, MItem0, FALSE, MItem0, <<>>) :
        fn \in {"Matcher", "Lexer"}}
    \cup {MBuild("match_cset", FALSE, NoCode, TRUE, cs, MItem0, FALSE, MItem0, <<>>) :
        cs \in CsOthers}
    \cup {MBuild("match_cset", FALSE, NoCode, FALSE, <<>>, x, FALSE, x, <<>>) :
        x \in CsItems}
    \cup {MBuild("match_cset", FALSE, NoCode, FALSE, <<>>, p[1], TRUE, p[2], <<>>) :
        p \in {q \in CsItems \X CsItems : q[1].kind = q[2].kind}}
    \cup {MBuild("match_str", FALSE, NoCode, FALSE, <<>>, MItem0, FALSE, MItem0, w) :
        w \in MStrings}

MMethods == {<<>>, <<"dfa">>, <<"reverse">>, <<"reverse", "reverse">>}

(* The arguments of one method call of the chain: the repeat instruction   *)
(* of repeat, the operand of concat, alternate and action (itself a call   *)
(* chain, evaluated when the call is reached), and the remaining           *)
(* parameters of Lexer.action.  Each is <<>> where the method takes none.  *)
MArgs(spec, other, action) == [spec |-> spec, other |-> other, action |-> action]
MNoArgs == MArgs(<<>>, <<>>, <<>>)

MCall(methods, args) == [methods |-> methods, args |-> args]
MPlain(methods) == MCall(methods, [i \in 1..Len(methods) |-> MNoArgs])

(* The repeat instructions of the scripts                                 *)
RElems ==
    {RNone, RElem("str", 0)} \cup {RElem("int", n) : n \in (0 - 1)..MaxRepeat}
MSpecs ==
    {RSpec("int", n, "", RNone, RNone) : n \in (0 - 1)..MaxRepeat}
    \cup {RSpec("sym", 0, sym, RNone, RNone) : sym \in {"*", "+", "?", "x"}}
    \cup {RSpec("pair", 0, "", lo, hi) : lo \in RElems, hi \in RElems}
    \cup {RSpec("other", 0, "", RNone, RNone)}

(* The operands of the scripts: call chains of their own, among them one  *)
(* that is no Matcher and ones that repeat or reverse has worked on.       *)
MOtherBuilds ==
    {MBuild(fn, FALSE, NoCode, FALSE, <<>>, MItem0, FALSE, MItem0, <<>>) :
        fn \in {"Matcher", "Lexer"}}
    \cup {MBuild("match_cset", FALSE, NoCode, FALSE, <<>>, MItem0, FALSE, MItem0, <<>>)}
    \cup {MBuild("match_str", FALSE, NoCode, FALSE, <<>>, MItem0, FALSE, MItem0, w) :
        w \in {<<>>, <<MIN_CHAR>>}}
MOtherCalls ==
    {MPlain(<<>>), MPlain(<<"reverse">>), MPlain(<<"dfa">>),
     MCall(<<"repeat">>, <<MArgs(<<RSpec("int", 0, "", RNone, RNone)>>, <<>>, <<>>)>>)}
MOthers ==
    {[build |-> b, methods |-> c.methods, args |-> c.args] :
        b \in MOtherBuilds, c \in MOtherCalls}

(* The operands of the scripts of several calls: a recognizer of one      *)
(* character, as built and made deterministic (a machine dfa() returns may *)
(* have several accepting states).                                         *)
MSeqOthers ==
    {[build |-> MBuild("match_cset", FALSE, NoCode, FALSE, <<>>, MItem0, FALSE,
                       MItem0, <<>>),
      methods |-> c.methods, args |-> c.args] :
        c \in {MPlain(<<>>), MPlain(<<"dfa">>)}}
MOneChar ==
    [build |-> MBuild("match_cset", FALSE, NoCode, FALSE, <<>>, MItem0, FALSE,
                      MItem0, <<>>),
     methods |-> <<>>, args |-> <<>>]
MOperandArgs(other) == MArgs(<<>>, <<other>>, <<>>)
MSeqCalls ==
    {MCall(<<m1, m2>>, <<MOperandArgs(o1), MOperandArgs(o2)>>) :
        m1 \in {"concat", "alternate"}, m2 \in {"concat", "alternate"},
        o1 \in MSeqOthers, o2 \in MSeqOthers}
    \cup {MCall(<<"repeat", m2>>,
                <<MArgs(<<RSpec("int", 1, "", RNone, RNone)>>, <<>>, <<>>),
                  MOperandArgs(o2)>>) :
            m2 \in {"concat", "alternate"}, o2 \in MSeqOthers}
    \cup {MCall(<<m1, "repeat">>,
                <<MOperandArgs(o1),
                  MArgs(<<RSpec("sym", 0, "*", RNone, RNone)>>, <<>>, <<>>)>>) :
            m1 \in {"concat", "alternate"}, o1 \in MSeqOthers}

(* The remaining parameters of the Lexer.action calls of the scripts       *)
MAct(action, precedence, code, exit_code, name) ==
    [action |-> action, precedence |-> precedence, code |-> code,
     exit_code |-> exit_code, name |-> name]
MActs ==
    {MAct("t", precedence, code, exit_code, <<>>) :
        precedence \in 1..MaxPrecedence, code \in {"", "a"},
        exit_code \in {<<>>, <<"a">>}}

MCalls ==
    {MPlain(methods) : methods \in MMethods}
    \cup {MPlain(<<"copy">>)}
    \cup {MCall(<<"repeat">>, <<MArgs(<<spec>>, <<>>, <<>>)>>) : spec \in MSpecs}
    \cup {MCall(<<method>>, <<MArgs(<<>>, <<other>>, <<>>)>>) :
            method \in {"concat", "alternate"}, other \in MOthers}
    \cup {MCall(<<"action">>, <<MArgs(<<>>, <<other>>, <<act>>)>>) :
            other \in MOthers, act \in MActs}
    \cup {MPlain(<<"iter_states">>)}
    \cup {MCall(<<"action", "iter_states">>,
                <<MArgs(<<>>, <<other>>, <<act>>), MNoArgs>>) :
            other \in MSeqOthers, act \in MActs}
    \cup {MPlain(<<"iter_states", "reverse">>)}
    \cup {MCall(<<"iter_states", "action">>,
                <<MNoArgs, MArgs(<<>>, <<other>>, <<act>>)>>) :
            other \in MSeqOthers, act \in MActs}
    \cup MSeqCalls
    \cup {MCall(<<"action", "action">>,
                <<MArgs(<<>>, <<o1>>, <<act>>), MArgs(<<>>, <<o2>>, <<act>>)>>) :
            o1 \in MSeqOthers, o2 \in MSeqOthers, act \in MActs}
    \cup {MCall(<<"action", "action", "dfa">>,
                <<MArgs(<<>>, <<MOneChar>>, <<a1>>),
                  MArgs(<<>>, <<MOneChar>>, <<a2>>), MNoArgs>>) :
            a1 \in MActs, a2 \in MActs}

MInit ==
    /\ mScript \in {[build |-> b, methods |-> c.methods, args |-> c.args] :
                       b \in MBuilds, c \in MCalls}
    /\ mPc = 0
    /\ mMach = NoMachine
    /\ mExc = "none"
    /\ mRes = <<>>
    /\ AlgIdle
    /\ DjIdle
    /\ CsIdle
    /\ SIdle
    /\ ClIdle

MBuilt(fn, out) ==
    /\ mPc = 0
    /\ mScript.build.fn = fn
    /\ mPc' = 1
    /\ mMach' = out.mach
    /\ mExc' = out.exc
    /\ UNCHANGED <<mScript, mRes>>
    /\ UNCHANGED <<algVars, djVars, csVars, sVars, clVars>>

NewMachine ==
    MBuilt("Machine", Machine_init(mScript.build.accepting, mScript.build.code))
NewMatcher == MBuilt("Matcher", Matcher_init)
NewLexer == MBuilt("Lexer", Lexer_init)
MatchCset ==
    MBuilt("match_cset",
           Matcher_match_cset(mScript.build.isCset, mScript.build.cset,
                              mScript.build.start, mScript.build.hasEnd,
                              mScript.build.end))
MatchStr == MBuilt("match_str", Matcher_match_str(mScript.build.string))

MDone == Len(mScript.methods) + 1

MCalled(method, out) ==
    /\ mPc >= 1
    /\ mPc < MDone
    /\ mScript.methods[mPc] = method
    /\ IF mExc # "none"
       THEN /\ mPc' = MDone
            /\ UNCHANGED <<mMach, mExc>>
       ELSE /\ mPc' = mPc + 1
            /\ mMach' = out.mach
            /\ mExc' = out.exc
    /\ UNCHANGED <<mScript, mRes>>
    /\ UNCHANGED <<algVars, djVars, csVars, sVars, clVars>>

Dfa == MCalled("dfa", Machine_dfa(mMach))
Reverse == MCalled("reverse", Machine_reverse(mMach))
Copy == MCalled("copy", Machine_copy(mMach))

(* The class of the object the chain works on: every method of a chain     *)
(* returns its receiver or a machine of the receiver's class.              *)
MClass ==
    IF mScript.build.fn \in {"Matcher", "match_cset", "match_str"} THEN "Matcher"
    ELSE mScript.build.fn

(* A method of Matcher, which another class does not have                  *)
MOfMatcher(out) == IF MClass = "Matcher" THEN out ELSE MOutcome(mMach, "AttributeError")

Repeat ==
    MCalled("repeat", MOfMatcher(Matcher_repeat(mMach, mScript.args[mPc].spec[1])))

(* What the constructor call b returns                                     *)
MBuildOutcome(b) ==
    CASE b.fn = "Machine" -> Machine_init(b.accepting, b.code)
      [] b.fn = "Matcher" -> Matcher_init
      [] b.fn = "Lexer" -> Lexer_init
      [] b.fn = "match_cset" ->
            Matcher_match_cset(b.isCset, b.cset, b.start, b.hasEnd, b.end)
      [] b.fn = "match_str" -> Matcher_match_str(b.string)

MIsMatcher(chain) == chain.build.fn \in {"Matcher", "match_cset", "match_str"}

(* The value of an operand chain: its constructor call, then its methods   *)
(* from the i-th on, until one raises.                                     *)
RECURSIVE MEvalFrom(_, _, _)
MEvalFrom(chain, out, i) ==
    IF out.exc # "none" \/ i > Len(chain.methods) THEN out
    ELSE LET method == chain.methods[i]
             next == CASE method = "reverse" -> Machine_reverse(out.mach)
                       [] method = "dfa" -> Machine_dfa(out.mach)
                       [] method = "copy" -> Machine_copy(out.mach)
                       [] method = "repeat" ->
                             IF MIsMatcher(chain)
                             THEN Matcher_repeat(out.mach, chain.args[i].spec[1])
                             ELSE MOutcome(out.mach, "AttributeError")
         IN  MEvalFrom(chain, next, i + 1)

MEval(chain) == MEvalFrom(chain, MBuildOutcome(chain.build), 1)

(* A call with an operand: the operand is evaluated before the call, and   *)
(* its exception is the exception of the call.                             *)
MOther == mScript.args[mPc].other[1]

(* The iterator of the chain.  it = m.iter_states() makes the generator,   *)
(* kept in mRes, and leaves the machine in hand: the methods that follow   *)
(* it in the chain are called on that machine, and they change it in       *)
(* place.  From then on the client may ask next(it) before and after each  *)
(* of them, as long as the generator has not ended and no call raised.     *)
IterStates ==
    /\ mPc >= 1
    /\ IF mRes # <<>> /\ mRes[1].pc \in {"created", "starts", "middle", "lasts"}
       THEN /\ mExc = "none"
            /\ \E gen \in Machine___iter___next(mMach, mRes[1]) : mRes' = <<gen>>
            /\ UNCHANGED mPc
       ELSE /\ mPc < MDone
            /\ mScript.methods[mPc] = "iter_states"
            /\ IF mExc # "none"
               THEN /\ mPc' = MDone
                    /\ UNCHANGED mRes
               ELSE /\ mPc' = mPc + 1
                    /\ mRes' = <<Machine___iter__(MClass = "Lexer")>>
    /\ UNCHANGED <<mScript, mMach, mExc>>
    /\ UNCHANGED <<algVars, djVars, csVars, sVars, clVars>>

(* A method of Lexer, which another class does not have                    *)
MOfLexer(out) == IF MClass = "Lexer" THEN out ELSE MOutcome(mMach, "AttributeError")

MActArg == mScript.args[mPc].action[1]

(* The places, counted from the newest, at which the Action transition    *)
(* that Action.merge keeps may stand among those tied for it               *)
MTies == 0..MaxTie

LexerAction ==
    \E tie \in MTies :
        LET Given(mach) ==
                IF mach.exc # "none" THEN MOutcome(mMach, mach.exc)
                ELSE Lexer_action(mMach, mach.mach, MActArg.action,
                                  MActArg.precedence, MActArg.code,
                                  MActArg.exit_code, MActArg.name, tie)
        IN  MCalled("action", MOfLexer(Given(MEval(MOther))))

Concat ==
    LET Given(other) ==
            IF other.exc # "none" THEN MOutcome(mMach, other.exc)
            ELSE Matcher_concat(mMach, other.mach, MIsMatcher(MOther))
    IN  MCalled("concat", MOfMatcher(Given(MEval(MOther))))
Alternate ==
    LET Given(other) ==
            IF other.exc # "none" THEN MOutcome(mMach, other.exc)
            ELSE Matcher_alternate(mMach, other.mach, MIsMatcher(MOther))
    IN  MCalled("alternate", MOfMatcher(Given(MEval(MOther))))

MNext ==
    \/ NewMachine
    \/ NewMatcher
    \/ NewLexer
    \/ MatchCset
    \/ MatchStr
    \/ Dfa
    \/ Reverse
    \/ Copy
    \/ Repeat
    \/ Concat
    \/ Alternate
    \/ LexerAction
    \/ IterStates

SpecMach == MInit /\ [][MNext]_vars

(***************************************************************************)
(* SpecState: a client holds SMaxStates State objects and SMaxCsets        *)
(* CharSet objects and makes up to SMaxCalls calls on them: it adds        *)
(* transitions of the three classes, reverses a state, reads eps_in and    *)
(* eps_out, and splits a list of MatchChar transitions with                *)
(* MatchChar.disjoint, whose generator it advances with next() between    *)
(* its other calls, as far as it likes.  sG is the graph, sLog the calls   *)
(* made so far with their arguments as they were at the call (the next()   *)
(* calls on the generator, which change nothing of the graph, are not      *)
(* logged), sRes what the last logged call returned, sGen the generator    *)
(* of the last MatchChar.disjoint call.                                    *)
(***************************************************************************)
SStates == 1..SMaxStates
SObjects == 1..SMaxCsets

(* The contents the CharSet objects start with                             *)
SCsets == {r \in CsOthers : Len(r) = 1 /\ r[1][2] <= MIN_CHAR + 1}

SCall(op, self, next_state, cls, cset, precedence, transitions) ==
    [op |-> op, self |-> self, next_state |-> next_state, cls |-> cls,
     cset |-> cset, precedence |-> precedence, transitions |-> transitions]

SInit ==
    /\ sG \in {[st |-> [state \in SStates |-> State_init(FALSE, NoCode)],
                tr |-> <<>>,
                cs |-> cs] :
                  cs \in [SObjects -> {[ranges |-> r, len |-> NoLen] : r \in SCsets}]}
    /\ sLog = <<>>
    /\ sRes = <<>>
    /\ sGen = <<>>
    /\ AlgIdle
    /\ DjIdle
    /\ CsIdle
    /\ MIdle
    /\ ClIdle

SLogged(call, g, res) ==
    /\ Len(sLog) < SMaxCalls
    /\ sG' = g
    /\ sLog' = Append(sLog, call)
    /\ sRes' = res
    /\ UNCHANGED <<algVars, djVars, csVars, mVars, clVars>>

SCalled(call, g, res) ==
    /\ SLogged(call, g, res)
    /\ UNCHANGED sGen

(* The transitions of a class that the outgoing table of p holds into q    *)
Similar(g, p, q, cls) ==
    {t \in g.st[p].trans_out : g.tr[t].state_in = q /\ g.tr[t].cls = cls}

TransitionEpsilon ==
    \E self \in SStates, next_state \in SStates :
        SCalled(SCall("transition", self, next_state, "Epsilon", <<>>, <<>>, <<>>),
                State_transition_Epsilon(sG, self, next_state), <<>>)

TransitionMatchChar ==
    \E self \in SStates, next_state \in SStates, cset \in SObjects :
        SCalled(SCall("transition", self, next_state, "MatchChar",
                      <<[obj |-> cset, ranges |-> sG.cs[cset].ranges]>>, <<>>, <<>>),
                State_transition_MatchChar(sG, self, next_state, cset), <<>>)

(* The transition that survives a tie depends on the order of a set: any   *)
(* of those tied may be the one kept.                                      *)
TransitionAction ==
    \E self \in SStates, next_state \in SStates,
       precedence \in 1..MaxPrecedence :
      \E tie \in 0..Cardinality(Similar(sG, self, next_state, "Action")) :
        /\ SCalled(SCall("transition", self, next_state, "Action", <<>>,
                         <<precedence>>, <<>>),
                   State_transition_Action(sG, self, next_state, "t", precedence,
                                           <<>>, tie),
                   <<>>)

StateReverse ==
    \E self \in SStates :
        SCalled(SCall("reverse", self, self, "", <<>>, <<>>, <<>>),
                [sG EXCEPT !.st[self] = State_reverse(@)], <<>>)

EpsIn ==
    \E self \in SStates :
        LET Read(r) == SCalled(SCall("eps_in", self, self, "", <<>>, <<>>, <<>>),
                               r.mach, <<r.value>>)
        IN  Read(State_eps_in(sG, self))

EpsOut ==
    \E self \in SStates :
        LET Read(r) == SCalled(SCall("eps_out", self, self, "", <<>>, <<>>, <<>>),
                               r.mach, <<r.value>>)
        IN  Read(State_eps_out(sG, self))

(* The MatchChar transitions the tables of the graph hold                  *)
SMatchChars(g) ==
    {t \in UNION {g.st[state].trans_out : state \in SStates} :
        g.tr[t].cls = "MatchChar"}

(* transitions.py:265-297  the call: the client holds a new generator      *)
Disjoint ==
    \E T \in SUBSET SMatchChars(sG) :
        \E transitions \in SetOrders(T) :
            /\ SLogged(SCall("disjoint", 0, 0, "MatchChar", <<>>, <<>>, transitions),
                       sG, <<>>)
            /\ sGen' = <<MatchChar_disjoint(transitions)>>

(* transitions.py:284-297  next() on the generator the client holds        *)
DisjointNext ==
    /\ sGen # <<>>
    /\ sGen[1].pc \in {"created", "yielded"}
    /\ sGen' = <<MatchChar_disjoint_next(sG, sGen[1])>>
    /\ UNCHANGED <<sG, sLog, sRes>>
    /\ UNCHANGED <<algVars, djVars, csVars, mVars, clVars>>

SNext ==
    \/ TransitionEpsilon
    \/ TransitionMatchChar
    \/ TransitionAction
    \/ StateReverse
    \/ EpsIn
    \/ EpsOut
    \/ Disjoint
    \/ DisjointNext

SpecState == SInit /\ [][SNext]_vars

(***************************************************************************)
(* SpecClosure: one run of eps_closure on a set of states of a graph of    *)
(* ClMaxStates states with up to ClMaxEdges Epsilon transitions, cycles    *)
(* and self-loops included, and at most one MatchChar transition between   *)
(* two states; naming is free, so it leads from state 1 to state 2.        *)
(* clWorkq, clVisited and clStates are the work queue, the visited set and *)
(* the result set of the function; clPc is "start" before the call, "loop" *)
(* in the while loop and "done" once it has returned.  The loop is         *)
(* sequential code: it runs on as long as it can.                          *)
(***************************************************************************)
ClStates == 1..ClMaxStates

ClEdgeSets ==
    {E \cup M :
        E \in {X \in SUBSET (ClStates \X ClStates \X {"Epsilon"}) :
                  Cardinality(X) <= ClMaxEdges},
        M \in {{}, {<<1, 2, "MatchChar">>}}}

(* The graph State.transition builds from one call per edge; a transition  *)
(* is named by its edge.                                                   *)
ClGraph(E) ==
    [st |-> [state \in ClStates |->
                [State_init(FALSE, NoCode) EXCEPT
                    !.trans_out = {e \in E : e[1] = state},
                    !.trans_in = {e \in E : e[2] = state}]],
     tr |-> [e \in E |-> [cls |-> e[3], state_out |-> e[1], state_in |-> e[2],
                          cset |-> IF e[3] = "MatchChar" THEN 1 ELSE <<>>]],
     cs |-> <<[ranges |-> <<Range(MIN_CHAR, MIN_CHAR)>>, len |-> NoLen]>>]

ClInit ==
    /\ sG \in {ClGraph(E) : E \in ClEdgeSets}
    /\ sLog = <<>>
    /\ sRes = <<>>
    /\ sGen = <<>>
    /\ clIn \in SUBSET ClStates
    /\ clWorkq = <<>>
    /\ clVisited = {}
    /\ clStates = {}
    /\ clPc = "start"
    /\ AlgIdle
    /\ DjIdle
    /\ CsIdle
    /\ MIdle

(* states.py:79-84  the work queue is the list of the given states, in the *)
(* order the set produces them; the result set starts as the given set.    *)
ClosureStart ==
    /\ clPc = "start"
    /\ \E order \in SetOrders(clIn) : clWorkq' = order
    /\ clVisited' = {}
    /\ clStates' = clIn
    /\ clPc' = "loop"
    /\ UNCHANGED clIn
    /\ UNCHANGED <<algVars, djVars, csVars, mVars, sVars>>

(* states.py:86-103  one turn of the while loop                            *)
ClosureVisit ==
    /\ clPc = "loop"
    /\ clWorkq # <<>>
    /\ LET state == Head(clWorkq)
           Found(targets) ==
               /\ \E order \in SetOrders(targets) : clWorkq' = Tail(clWorkq) \o order
               /\ clStates' = clStates \cup targets
       IN  /\ clVisited' = clVisited \cup {state}
           /\ Found(EpsTargets(sG, state, clVisited \cup {state}))
    /\ UNCHANGED <<clIn, clPc>>
    /\ UNCHANGED <<algVars, djVars, csVars, mVars, sVars>>

(* states.py:86, 106  the queue is empty: the result set is returned       *)
ClosureReturn ==
    /\ clPc = "loop"
    /\ clWorkq = <<>>
    /\ clPc' = "done"
    /\ UNCHANGED <<clIn, clWorkq, clVisited, clStates>>
    /\ UNCHANGED <<algVars, djVars, csVars, mVars, sVars>>

ClNext ==
    \/ ClosureStart
    \/ ClosureVisit
    \/ ClosureReturn

SpecClosure == ClInit /\ [][ClNext]_vars /\ WF_vars(ClNext)

(***************************************************************************)
(* Properties of machines (checked under SpecMach).                        *)
(***************************************************************************)
(* The constructor call is one for which a machine is promised: the only   *)
(* documented failure is match_cset on an invalid character range.         *)
MPromised(b) ==
    (b.fn = "match_cset" /\ ~b.isCset) =>
        CharSet_init_range(b.start, b.hasEnd, b.end).exc = "none"

(* What the constructor call of the chain returned                         *)
MBuiltMach ==
    LET b == mScript.build
    IN  CASE b.fn = "Machine" -> Machine_init(b.accepting, b.code).mach
          [] b.fn = "Matcher" -> Matcher_init.mach
          [] b.fn = "Lexer" -> Lexer_init.mach
          [] b.fn = "match_cset" ->
                Matcher_match_cset(b.isCset, b.cset, b.start, b.hasEnd, b.end).mach
          [] b.fn = "match_str" -> Matcher_match_str(b.string).mach

OutOf(m, state) == {m.tr[t] : t \in m.st[state].trans_out}

(* No Epsilon transition, and no two MatchChar transitions of one state    *)
(* that share a code point.                                                *)
Deterministic(m) ==
    \A state \in m.states :
        /\ \A t \in m.st[state].trans_out : m.tr[t].cls # "Epsilon"
        /\ \A t, u \in m.st[state].trans_out :
              (t # u /\ m.tr[t].cls = "MatchChar" /\ m.tr[u].cls = "MatchChar")
                  => \A c \in Probe : ~(Member(m.tr[t].cset, c) /\ Member(m.tr[u].cset, c))

RECURSIVE EpsReach(_, _)
EpsReach(m, from) ==
    LET more == {t.state_in : t \in {x \in UNION {OutOf(m, q) : q \in from} :
                                        x.cls = "Epsilon"}}
    IN  IF more \subseteq from THEN from ELSE EpsReach(m, from \cup more)

RECURSIVE RunFrom(_, _, _)
RunFrom(m, from, w) ==
    IF w = <<>> THEN from
    ELSE RunFrom(m,
                 EpsReach(m, {t.state_in :
                     t \in {x \in UNION {OutOf(m, q) : q \in from} :
                                x.cls = "MatchChar" /\ Member(x.cset, Head(w))}}),
                 Tail(w))

Accepts(m, w) ==
    m.start # <<>> /\ RunFrom(m, EpsReach(m, {m.start[1]}), w) \cap m.accepting # {}

SameLanguage(m1, m2) == \A w \in MStrings : Accepts(m1, w) <=> Accepts(m2, w)

MChainDone(methods) ==
    mScript.methods = methods /\ mPc = MDone /\ MPromised(mScript.build)

(* C1: for every machine m, m.dfa() is a machine with no Epsilon           *)
(* transition in which no two MatchChar transitions leaving one state      *)
(* share a code point.                                                     *)
C1_DfaIsDeterministic ==
    MChainDone(<<"dfa">>) =>
        (mExc = "none" /\ mMach # NoMachine /\ Deterministic(mMach))

(* C2: for every machine m and every string w, m.dfa() accepts w exactly   *)
(* when m accepts w.                                                       *)
C2_DfaKeepsTheLanguage ==
    MChainDone(<<"dfa">>) =>
        (mExc = "none" /\ mMach # NoMachine /\ SameLanguage(mMach, MBuiltMach))

(* C10: m.reverse().reverse() leaves m with the start state, the set of    *)
(* accepting states and the direction of every transition it began with,   *)
(* and so with the language it began with.                                 *)
C10_DoubleReverseRestores ==
    MChainDone(<<"reverse", "reverse">>) =>
        /\ mExc = "none"
        /\ mMach # NoMachine
        /\ mMach.start = MBuiltMach.start
        /\ mMach.accepting = MBuiltMach.accepting
        /\ \A state \in MBuiltMach.states :
              OutOf(mMach, state) = OutOf(MBuiltMach, state)
        /\ SameLanguage(mMach, MBuiltMach)

(* The transitions of a class and payload from state s to state t         *)
Between(m, s, t, cls, cset) ==
    {x \in m.st[s].trans_out :
        /\ m.tr[x].state_in = t
        /\ m.tr[x].cls = cls
        /\ m.tr[x].cset = cset}

(* f maps the states of m one to one onto those of c, keeps the accepting  *)
(* bit and the start code, the start state, and every transition with its *)
(* class and payload, once.                                                *)
IsomorphicBy(m, c, f) ==
    /\ \A s, t \in m.states : s # t => f[s] # f[t]
    /\ {f[s] : s \in m.states} = c.states
    /\ \A s \in m.states :
          /\ c.st[f[s]].accepting = m.st[s].accepting
          /\ c.st[f[s]].code = m.st[s].code
    /\ c.start = <<f[m.start[1]]>>
    /\ \A s, t \in m.states :
          \A x \in m.st[s].trans_out :
              m.tr[x].state_in = t =>
                  Cardinality(Between(c, f[s], f[t], m.tr[x].cls, m.tr[x].cset)) = 1

(* C11: m.copy() returns a machine that shares no state with m and is      *)
(* isomorphic to it: every state of m has one fresh state with the same    *)
(* accepting bit and code, the start maps to the start, every transition   *)
(* of m has exactly one transition of its class and payload between the    *)
(* mapped states, and both machines accept the same language.              *)
C11_CopyIsIsomorphicAndFresh ==
    MChainDone(<<"copy">>) =>
        /\ mExc = "none"
        /\ mMach # NoMachine
        /\ mMach.states \cap MBuiltMach.states = {}
        /\ \E f \in [MBuiltMach.states -> mMach.states] :
              IsomorphicBy(MBuiltMach, mMach, f)
        /\ SameLanguage(mMach, MBuiltMach)

(* The bounds a repeat instruction stands for: an integer n is (n, n), a  *)
(* pair is itself, "*" is (0, none), "+" is (1, none), "?" is (0, 1).      *)
RMin(spec) ==
    CASE spec.kind = "int" -> RElem("int", spec.n)
      [] spec.kind = "pair" -> spec.lo
      [] spec.kind = "sym" -> RElem("int", IF spec.sym = "+" THEN 1 ELSE 0)
RMax(spec) ==
    CASE spec.kind = "int" -> RElem("int", spec.n)
      [] spec.kind = "pair" -> spec.hi
      [] spec.kind = "sym" -> IF spec.sym = "?" THEN RElem("int", 1) ELSE RNone

RHasBounds(spec) ==
    \/ spec.kind \in {"int", "pair"}
    \/ spec.kind = "sym" /\ spec.sym \in {"*", "+", "?"}

(* min is a non-negative integer; max is none or an integer >= min         *)
RMinValid(spec) == RMin(spec).t = "int" /\ RMin(spec).v >= 0
RValid(spec) ==
    /\ RHasBounds(spec)
    /\ RMinValid(spec)
    /\ \/ RMax(spec).t = "none"
       \/ RMax(spec).t = "int" /\ RMax(spec).v >= RMin(spec).v

(* A lower bound of None, which line 713 reads as 0, is left to neither    *)
(* side.                                                                   *)
RInvalid(spec) ==
    /\ RHasBounds(spec)
    /\ RMin(spec).t # "none"
    /\ ~RValid(spec)

(* The words of MStrings that are k words of L one after another           *)
RECURSIVE Concats(_, _)
Concats(L, k) ==
    IF k = 0 THEN {<<>>}
    ELSE {w \in MStrings : \E u \in Concats(L, k - 1), v \in L : w = u \o v}

LangOf(m) == {w \in MStrings : Accepts(m, w)}

(* Past min + MaxSeqLen words a concatenation of length <= MaxSeqLen holds *)
(* empty words only, so an open interval is decided below that count.      *)
Repeats(L, spec) ==
    LET top == IF RMax(spec).t = "none" THEN RMin(spec).v + MaxSeqLen
               ELSE RMax(spec).v
    IN  UNION {Concats(L, k) : k \in RMin(spec).v..top}

MRepeatSpec == mScript.args[1].spec[1]

(* C12: for a matcher m with language L and every valid repeat             *)
(* instruction with bounds (min, max), after m.repeat(spec) the machine    *)
(* accepts a string exactly when it is a concatenation of k words of L for *)
(* some k with min <= k and (max is none or k <= max); for an integer n it *)
(* accepts exactly the n-fold concatenations.                              *)
C12_RepeatAcceptsTheRepetitions ==
    (MChainDone(<<"repeat">>) /\ MClass = "Matcher" /\ RValid(MRepeatSpec)) =>
        /\ mExc = "none"
        /\ mMach # NoMachine
        /\ LangOf(mMach) = Repeats(LangOf(MBuiltMach), MRepeatSpec)

(* C13: for every form of repeat instruction, repeat fails with BadRepeat  *)
(* (ValueError), before it adds a state or a transition, whenever the      *)
(* minimum is not a non-negative integer or the maximum is neither none    *)
(* nor an integer >= the minimum; no machine is built from it.             *)
C13_BadRepeatIsRejected ==
    (MChainDone(<<"repeat">>) /\ MClass = "Matcher" /\ RInvalid(MRepeatSpec)) =>
        /\ mExc = "ValueError"
        /\ mMach = MBuiltMach

(* The operand of the one call of the chain, as the call was given it, and *)
(* with the identities it has beside the receiver.                         *)
MOperand == MEval(mScript.args[1].other[1])
MOperandBeside == Rebased(MBuiltMach, MOperand.mach)

(* A chain of one call with an operand, both receiver and operand being    *)
(* Matchers                                                                *)
MTwoMatchers(method) ==
    /\ MChainDone(<<method>>)
    /\ MClass = "Matcher"
    /\ MIsMatcher(mScript.args[1].other[1])

(* C14: for any two matchers a and b, operands of earlier concat,          *)
(* alternate or repeat included (whose start state may have incoming       *)
(* transitions, whose final state outgoing ones), after a.alternate(b) the *)
(* machine accepts a string exactly when a or b accepted it before.        *)
C14_AlternateAcceptsEither ==
    MTwoMatchers("alternate") =>
        /\ mExc = "none"
        /\ mMach # NoMachine
        /\ MOperand.exc = "none"
        /\ \A w \in MStrings :
              Accepts(mMach, w) <=>
                  (Accepts(MBuiltMach, w) \/ Accepts(MOperand.mach, w))

(* C15: for any two matchers a and b with at least one accepting state     *)
(* each, after a.concat(b) the former final state of a is not accepting    *)
(* and has an Epsilon transition to the start of b, the accepting set is   *)
(* exactly that of b, and the machine accepts a string exactly when it is  *)
(* uv with u accepted by a and v accepted by b before the call.            *)
C15_ConcatJoinsTheLanguages ==
    MTwoMatchers("concat") =>
        /\ mExc = "none"
        /\ mMach # NoMachine
        /\ MOperand.exc = "none"
        /\ (MBuiltMach.accepting # {} /\ MOperand.mach.accepting # {}) =>
              LET final == Machine__final(MBuiltMach).final[1]
              IN  /\ ~mMach.st[final].accepting
                  /\ \E t \in mMach.st[final].trans_out :
                        /\ mMach.tr[t].cls = "Epsilon"
                        /\ mMach.tr[t].state_in = MOperandBeside.start[1]
                  /\ mMach.accepting = MOperandBeside.accepting
                  /\ \A w \in MStrings :
                        Accepts(mMach, w) <=>
                            \E u \in LangOf(MBuiltMach), v \in LangOf(MOperand.mach) :
                                w = u \o v

(* An accepting start state tagged code, of the lexer m                   *)
IsStartFor(m, code) ==
    /\ code \in DOMAIN m.start_codes
    /\ m.start_codes[code] \in m.states
    /\ m.st[m.start_codes[code]].accepting
    /\ m.st[m.start_codes[code]].code = <<code>>

HasEpsilon(m, s, t) ==
    \E x \in m.st[s].trans_out : m.tr[x].cls = "Epsilon" /\ m.tr[x].state_in = t

(* fin is the final state of the recognizer sub: its one accepting state,  *)
(* or the state its accepting states were unified into.                    *)
IsFinalOf(m, sub, fin) ==
    \A q \in sub.accepting : q = fin \/ HasEpsilon(m, q, fin)

(* C16: after lexer.action(sub, text, precedence, code, exit_code, name)   *)
(* the lexer has accepting start states tagged code and exit_code (the     *)
(* code start when exit_code is omitted), an Epsilon transition from the   *)
(* code start to the start of sub, an Action transition carrying (text,    *)
(* precedence, name) from the final state of sub to the exit_code start,   *)
(* and the final state of sub is no longer accepting.                      *)
C16_ActionAttachesTheRecognizer ==
    (MChainDone(<<"action">>) /\ MClass = "Lexer") =>
        /\ mExc = "none"
        /\ mMach # NoMachine
        /\ MOperand.exc = "none"
        /\ MOperand.mach.accepting # {} =>
              LET act == mScript.args[1].action[1]
                  exit == IF act.exit_code = <<>> THEN act.code
                          ELSE act.exit_code[1]
              IN  /\ IsStartFor(mMach, act.code)
                  /\ IsStartFor(mMach, exit)
                  /\ HasEpsilon(mMach, mMach.start_codes[act.code],
                                MOperandBeside.start[1])
                  /\ \E fin \in DOMAIN mMach.st :
                        /\ IsFinalOf(mMach, MOperandBeside, fin)
                        /\ ~mMach.st[fin].accepting
                        /\ \E x \in mMach.st[fin].trans_out :
                              /\ mMach.tr[x].cls = "Action"
                              /\ mMach.tr[x].state_in = mMach.start_codes[exit]
                              /\ mMach.tr[x].action = act.action
                              /\ mMach.tr[x].precedence = act.precedence
                              /\ mMach.tr[x].name = act.name

(* The start states of a machine: the start state, or for a lexer the     *)
(* states of its start codes.                                              *)
StartsOf(m) ==
    IF "start_codes" \in DOMAIN m
    THEN {m.start_codes[code] : code \in DOMAIN m.start_codes}
    ELSE {m.start[1]}

RECURSIVE ReachableFrom(_, _)
ReachableFrom(m, from) ==
    LET more == {t.state_in : t \in UNION {OutOf(m, q) : q \in from}}
    IN  IF more \subseteq from THEN from ELSE ReachableFrom(m, from \cup more)

(* A chain of concat, alternate and repeat calls on a Matcher, or of       *)
(* action calls on a Lexer, with valid repeat instructions and Matchers as *)
(* operands, has been evaluated.                                           *)
MAbsorbingDone ==
    /\ mPc = MDone
    /\ mScript.methods # <<>>
    /\ MPromised(mScript.build)
    /\ \A i \in 1..Len(mScript.methods) :
          /\ \/ MClass = "Matcher" /\ mScript.methods[i] \in {"concat", "alternate", "repeat"}
             \/ MClass = "Lexer" /\ mScript.methods[i] = "action"
          /\ mScript.methods[i] = "repeat" => RValid(mScript.args[i].spec[1])
          /\ mScript.methods[i] # "repeat" => MIsMatcher(mScript.args[i].other[1])

(* C17: after any sequence of concat, alternate, repeat and Lexer.action   *)
(* calls, whose operands may have one or several accepting states, the     *)
(* state set of the resulting machine contains every state of every        *)
(* absorbed operand, and so every state that transitions reach from its    *)
(* start states.                                                           *)
C17_StatesHoldEveryAbsorbedState ==
    MAbsorbingDone =>
        /\ mExc = "none"
        /\ mMach # NoMachine
        /\ ReachableFrom(mMach, StartsOf(mMach)) \subseteq mMach.states
        /\ (Len(mScript.methods) = 1 /\ mScript.methods[1] # "repeat") =>
              MOperandBeside.states \subseteq mMach.states

(* Position of the start code of a start state among the start codes     *)
CodeRank(m, state) ==
    CHOOSE i \in 1..Len(StartCodes) :
        StartCodes[i] \in DOMAIN m.start_codes /\ m.start_codes[StartCodes[i]] = state

(* 1 for a start state, 2 for a state neither start nor accepting, 3 for   *)
(* an accepting state that is no start state                               *)
IterGroup(m, state) ==
    IF state \in StartsOf(m) THEN 1
    ELSE IF state \in m.accepting THEN 3 ELSE 2

(* C18: iter_states of a machine produces every state of its state set     *)
(* exactly once, in this order: first all start states (for a Lexer, in    *)
(* ascending order of start-code string), then the states that are neither *)
(* start nor accepting, and last the accepting states that are not start   *)
(* states.  iter_states is the last call of the chain, so the machine does *)
(* not change while the generator is consumed; what it has produced so far *)
(* is in this order, and all of it when the generator is exhausted.        *)
C18_IterStatesOrder ==
    (mPc = MDone /\ mScript.methods # <<>> /\ MPromised(mScript.build)
        /\ mScript.methods[Len(mScript.methods)] = "iter_states"
        /\ (Len(mScript.methods) > 1 => MClass = "Lexer")) =>
        /\ mExc = "none"
        /\ mRes # <<>>
        /\ mRes[1].pc # "raised"
        /\ LET order == mRes[1].out
           IN  /\ {order[i] : i \in 1..Len(order)} \subseteq mMach.states
               /\ mRes[1].pc = "done" =>
                     {order[i] : i \in 1..Len(order)} = mMach.states
               /\ Len(order) <= Cardinality(mMach.states)
               /\ \A i, j \in 1..Len(order) :
                     i < j =>
                         /\ order[i] # order[j]
                         /\ IterGroup(mMach, order[i]) <= IterGroup(mMach, order[j])
                         /\ ("start_codes" \in DOMAIN mMach
                               /\ IterGroup(mMach, order[j]) = 1) =>
                                CodeRank(mMach, order[i]) < CodeRank(mMach, order[j])

ActionsOut(m, state) == {t \in m.st[state].trans_out : m.tr[t].cls = "Action"}

(* C20: in the dfa() of a Lexer, whenever the closure behind a DFA state   *)
(* holds the final states of two or more attached recognizers (two actions *)
(* match the same text), whatever their start and exit codes, that DFA     *)
(* state has exactly one outgoing Action transition, and it carries the    *)
(* action with the smallest precedence value.  In the chains checked two   *)
(* recognizers of the same one-character text are attached to one start    *)
(* code, so every DFA state with an action to take stands for both final   *)
(* states.                                                                 *)
C20_DfaKeepsTheSmallestPrecedence ==
    (MChainDone(<<"action", "action", "dfa">>) /\ MClass = "Lexer"
        /\ mScript.args[1].action[1].code = mScript.args[2].action[1].code) =>
        /\ mExc = "none"
        /\ mMach # NoMachine
        /\ \A state \in mMach.states :
              ActionsOut(mMach, state) # {} =>
                  /\ Cardinality(ActionsOut(mMach, state)) = 1
                  /\ \A t \in ActionsOut(mMach, state) :
                        mMach.tr[t].precedence =
                            Min2(mScript.args[1].action[1].precedence,
                                 mScript.args[2].action[1].precedence)
        /\ mScript.args[1].action[1].code = "" =>
              \E state \in mMach.states : ActionsOut(mMach, state) # {}

(* The machine is a chain on the word w under f: f maps 0..Len(w) one to   *)
(* one onto the states, f[0] is the start, the only transition out of      *)
(* f[i-1] is a MatchChar on the single character w[i] into f[i], the last  *)
(* state has no transition out and is the only accepting state.            *)
IsChainOn(m, w, f) ==
    /\ \A i, j \in 0..Len(w) : i # j => f[i] # f[j]
    /\ {f[i] : i \in 0..Len(w)} = m.states
    /\ m.start = <<f[0]>>
    /\ \A i \in 1..Len(w) :
          OutOf(m, f[i - 1]) = {[cls |-> "MatchChar", state_out |-> f[i - 1],
                                state_in |-> f[i],
                                cset |-> <<Range(w[i], w[i])>>]}
    /\ OutOf(m, f[Len(w)]) = {}
    /\ m.accepting = {f[Len(w)]}
    /\ \A i \in 0..Len(w) : m.st[f[i]].accepting <=> i = Len(w)

(* C21: for every string s, the empty string included, match_str(s)        *)
(* returns a machine of Len(s) + 1 states in which the i-th character's    *)
(* single-character MatchChar transition leads from the i-th state of the  *)
(* chain to the next, exactly one state, the last of the chain, is         *)
(* accepting, and the machine accepts exactly the string s.                *)
C21_MatchStrBuildsTheChain ==
    (MChainDone(<<>>) /\ mScript.build.fn = "match_str") =>
        /\ mExc = "none"
        /\ mMach # NoMachine
        /\ Cardinality(mMach.states) = Len(mScript.build.string) + 1
        /\ \E f \in [0..Len(mScript.build.string) -> mMach.states] :
              IsChainOn(mMach, mScript.build.string, f)
        /\ LangOf(mMach) = {mScript.build.string}

(* Both ends of every transition agree: it is in the outgoing table of its *)
(* state_out exactly when it is in the incoming table of its state_in.  A  *)
(* transition's priority is that of its class, so the tables stand for     *)
(* their priority buckets.                                                 *)
InOutAgree(m) ==
    \A t \in DOMAIN m.tr :
        (t \in m.st[m.tr[t].state_out].trans_out)
            <=> (t \in m.st[m.tr[t].state_in].trans_in)

(* C22: after any sequence of State.transition calls, merging or not, and  *)
(* Machine.reverse calls, a transition is in the priority bucket of the    *)
(* outgoing table of its state_out if and only if it is in that bucket of  *)
(* the incoming table of its state_in; a merge removes a transition from   *)
(* both ends.  Checked on the chains that reverse a machine.               *)
C22_BothEndsHoldTheTransition ==
    (mPc = MDone /\ MPromised(mScript.build)
        /\ \E i \in 1..Len(mScript.methods) : mScript.methods[i] = "reverse") =>
        /\ mExc = "none"
        /\ mMach # NoMachine
        /\ InOutAgree(mMach)

(* The chain is over and each of its methods is one of those named        *)
MChainOver(methods) ==
    /\ mPc = MDone
    /\ MPromised(mScript.build)
    /\ \A i \in 1..Len(mScript.methods) : mScript.methods[i] \in methods

(* The constructor call promises a machine with an accepting state         *)
MBuildAccepts ==
    \/ mScript.build.fn \in {"match_cset", "match_str"}
    \/ mScript.build.fn = "Machine" /\ mScript.build.accepting

(* C25: after any sequence of concat, alternate, repeat and reverse on a   *)
(* machine that has at least one accepting state, reading final returns a  *)
(* state that is accepting and is the only member of the machine's         *)
(* accepting set; a cached final is not returned once the accepting role   *)
(* has moved to another state.                                             *)
C25_FinalIsTheOnlyAccepting ==
    (MChainOver({"reverse", "concat", "alternate", "repeat"}) /\ MBuildAccepts) =>
        /\ mExc = "none"
        /\ mMach # NoMachine
        /\ LET Read(f) ==
                   /\ f.final # <<>>
                   /\ f.mach.st[f.final[1]].accepting
                   /\ f.mach.accepting = {f.final[1]}
           IN  mMach.accepting # {} => Read(Machine__final(mMach))

(* The start codes the chain registers in the lexer: the initial code ""   *)
(* and the code and exit code of every action call.                        *)
MCodesRegistered ==
    {""} \cup UNION {{mScript.args[i].action[1].code} \cup
                        (IF mScript.args[i].action[1].exit_code = <<>> THEN {}
                         ELSE {mScript.args[i].action[1].exit_code[1]}) :
                     i \in {j \in 1..Len(mScript.methods) :
                                mScript.methods[j] = "action"}}

(* C29: dfa() applied to a Lexer keeps its start codes: for every start    *)
(* code c registered in the source lexer, the machine returned has a start *)
(* state registered under c and tagged with the code c, also when no       *)
(* action that can be reached exits to c.                                  *)
C29_DfaKeepsTheStartCodes ==
    (MChainOver({"action", "dfa"}) /\ MClass = "Lexer"
        /\ mScript.methods # <<>>
        /\ mScript.methods[Len(mScript.methods)] = "dfa") =>
        /\ mExc = "none"
        /\ mMach # NoMachine
        /\ "start_codes" \in DOMAIN mMach
        /\ \A c \in MCodesRegistered :
              /\ c \in DOMAIN mMach.start_codes
              /\ mMach.start_codes[c] \in mMach.states
              /\ mMach.st[mMach.start_codes[c]].code = <<c>>

(* C30: after any sequence of copy, reverse, concat, alternate, repeat,    *)
(* Lexer.action and dfa, a state of the machine's state set is a member of *)
(* the machine's accepting set if and only if its accepting flag is set.   *)
C30_AcceptingSetMatchesTheFlags ==
    MChainOver({"copy", "reverse", "concat", "alternate", "repeat", "action", "dfa"}) =>
        /\ mExc = "none"
        /\ mMach # NoMachine
        /\ \A state \in mMach.states :
              state \in mMach.accepting <=> mMach.st[state].accepting

(***************************************************************************)
(* Properties of states and transitions (checked under SpecState).         *)
(***************************************************************************)
(* Every call made so far is one of those named                            *)
SOnly(ops) == \A i \in 1..Len(sLog) : sLog[i].op \in ops

(* The calls that added a transition of a class from p to q                *)
SAdded(p, q, cls) ==
    {i \in 1..Len(sLog) :
        /\ sLog[i].op = "transition"
        /\ sLog[i].self = p
        /\ sLog[i].next_state = q
        /\ sLog[i].cls = cls}

SProbe == MIN_CHAR..(CsMaxPoint + 1)

(* C23: after any sequence of State.transition calls, between any ordered  *)
(* pair of states (p, q) there is at most one Epsilon transition, at most  *)
(* one MatchChar transition, whose cset is the union of all csets ever     *)
(* added from p to q, and at most one Action transition, the one with the  *)
(* minimum precedence among all Actions ever added from p to q.            *)
C23_OneTransitionOfAClassPerPair ==
    SOnly({"transition"}) =>
        \A p \in SStates, q \in SStates :
            /\ \A cls \in {"Epsilon", "MatchChar", "Action"} :
                  /\ Cardinality(Similar(sG, p, q, cls)) <= 1
                  /\ SAdded(p, q, cls) # {} => Similar(sG, p, q, cls) # {}
            /\ \A t \in Similar(sG, p, q, "MatchChar") :
                  \A c \in SProbe :
                      Member(sG.cs[sG.tr[t].cset].ranges, c)
                          <=> \E i \in SAdded(p, q, "MatchChar") :
                                 Member(sLog[i].cset[1].ranges, c)
            /\ \A t \in Similar(sG, p, q, "Action") :
                  \A i \in SAdded(p, q, "Action") :
                      sG.tr[t].precedence <= sLog[i].precedence[1]

(* C24: at every point of any sequence of State.transition and             *)
(* State.reverse calls interleaved with reads of eps_in and eps_out, what  *)
(* state.eps_in returns is true if and only if every non-epsilon priority  *)
(* bucket of the state's current incoming table is empty, and likewise     *)
(* state.eps_out for its current outgoing table: no cached answer is       *)
(* stale.                                                                  *)
C24_EpsAnswersAreNeverStale ==
    SOnly({"transition", "reverse", "eps_in", "eps_out"}) =>
        \A state \in SStates :
            /\ State_eps_in(sG, state).value
                  <=> _all_eps(sG, sG.st[state].trans_in)
            /\ State_eps_out(sG, state).value
                  <=> _all_eps(sG, sG.st[state].trans_out)

(* The code points of the range D all belong to the set                    *)
SContains(ranges, D) == \A c \in D[1]..D[2] : Member(ranges, c)

(* C26: for any list of MatchChar transitions, also transitions that carry *)
(* the very same cset object, each group MatchChar.disjoint emits for a    *)
(* disjoint sub-CSet D contains, for every original transition whose cset  *)
(* contains D, exactly one new transition with cset D and that original's  *)
(* own state_out and state_in.  Checked on graphs built by transition      *)
(* calls alone, where no two transitions of the list share both ends, and  *)
(* on generators consumed before the client's next call, for every group   *)
(* yielded so far.                                                         *)
C26_DisjointKeepsEveryOwnersEnds ==
    (SOnly({"transition", "disjoint"}) /\ sLog # <<>>
        /\ sLog[Len(sLog)].op = "disjoint") =>
        /\ sGen[1].pc # "raised"
        /\ \A g \in 1..Len(sGen[1].out) :
              \A i \in 1..Len(sGen[1].transitions) :
                  LET group == sGen[1].out[g]
                      t == sG.tr[sGen[1].transitions[i]]
                  IN  SContains(sG.cs[t.cset].ranges, group[1].cset[1]) =>
                          Cardinality({k \in 1..Len(group) :
                              /\ group[k].state_out = t.state_out
                              /\ group[k].state_in = t.state_in
                              /\ group[k].cset = group[1].cset}) = 1

(***************************************************************************)
(* Properties of eps_closure (checked under SpecClosure).                  *)
(***************************************************************************)
(* X is closed under the Epsilon transitions of the graph                  *)
ClClosed(X) ==
    \A e \in DOMAIN sG.tr :
        (sG.tr[e].cls = "Epsilon" /\ sG.tr[e].state_out \in X) =>
            sG.tr[e].state_in \in X

(* C27: for any finite set S of states of any transition graph, graphs     *)
(* with epsilon cycles and self-loops included, eps_closure(S) terminates, *)
(* and what it returns contains S, is closed under Epsilon transitions and *)
(* contains nothing else: it is within every closed set that contains S.   *)
C27_EpsClosureIsTheClosure ==
    /\ <>(clPc = "done")
    /\ [](clPc = "done" =>
            /\ clIn \subseteq clStates
            /\ ClClosed(clStates)
            /\ \A X \in SUBSET ClStates :
                  (clIn \subseteq X /\ ClClosed(X)) => clStates \subseteq X)

(* eps_closure has returned on a graph with an epsilon cycle between two   *)
(* states and a MatchChar transition out of the closure, from a start set  *)
(* that the closure extends and that does not cover the graph.             *)
C27_Witness ==
    /\ clPc = "done"
    /\ clIn # clStates
    /\ clStates # ClStates
    /\ \E p \in clStates, q \in clStates :
          /\ p # q
          /\ <<p, q, "Epsilon">> \in DOMAIN sG.tr
          /\ <<q, p, "Epsilon">> \in DOMAIN sG.tr
    /\ \E e \in DOMAIN sG.tr :
          /\ sG.tr[e].cls = "MatchChar"
          /\ sG.tr[e].state_out \in clStates
          /\ sG.tr[e].state_in \notin clStates

(***************************************************************************)
(* Properties of the mutable character set (checked under SpecCSet).       *)
(***************************************************************************)
(* C5: a mutable character set is in canonical form (every range has       *)
(* start <= end within [MIN_CHAR, MAX_CHAR]; the ranges are sorted,        *)
(* disjoint and not adjacent) once any public constructor form has         *)
(* returned, the (start, end) pair form included, and after any sequence   *)
(* of mutators.                                                            *)
C5_AlwaysCanonical == csPc = "live" => Canonical(csRanges)

(* C6: through any interleaving of mutators and len() calls on a set that  *)
(* a constructor returned, a filled length cache holds the sum of          *)
(* end - start + 1 over the current ranges (no mutator leaves a stale      *)
(* cache), and every len() call returns that sum.                          *)
C6_LenCacheNeverStale ==
    /\ [](csPc = "live" /\ csLen # NoLen => csLen[1] = RangeSum(csRanges))
    /\ [][LenCall => /\ csExc' = "none"
                     /\ csLenRes' = <<RangeSum(csRanges)>>]_vars

(* The code points at which the members of two sets of SpecCSet are         *)
(* compared: the window of the exploration and both ends of the domain.    *)
CsProbe == (MIN_CHAR..(CsMaxPoint + 1)) \cup {MAX_CHAR - 1, MAX_CHAR}

(* C19: remove(x) of an item x, given as an integer code point or as a     *)
(* single character: when x is not in the set the call fails with KeyError *)
(* (Missing) and leaves the ranges and the cached length unchanged; when x *)
(* is in the set the call succeeds and the set afterwards is the old set   *)
(* minus {x}.                                                              *)
C19_RemoveMissingOrSucceeds ==
    [][\A x \in CsItems :
          (~ItemRejected(x) /\ CsMutate(CharSet_remove(CsSelf, x))) =>
              IF Member(csRanges, x.cp)
              THEN /\ csExc' = "none"
                   /\ \A c \in CsProbe :
                         Member(csRanges', c) <=>
                             (Member(csRanges, c) /\ c # x.cp)
              ELSE /\ csExc' = "KeyError"
                   /\ csRanges' = csRanges
                   /\ csLen' = csLen]_vars

(***************************************************************************)
(* Properties of the set operations (checked under SpecAlg).               *)
(***************************************************************************)
SameMembers(res, a, b, op) ==
    \A c \in Probe :
        Member(res, c) <=>
            CASE op = "intersection" -> Member(a, c) /\ Member(b, c)
              [] op = "union" -> Member(a, c) \/ Member(b, c)
              [] op = "difference" -> Member(a, c) /\ ~Member(b, c)
              [] op = "sym_difference" -> Member(a, c) # Member(b, c)

SetOps == {"intersection", "union", "difference", "sym_difference"}

(* C7: for canonical a and b, _intersection, _union, _difference and       *)
(* _sym_difference each return a canonical range list (sorted, ranges not  *)
(* adjacent) whose members are exactly those of a & b, a | b, a - b and    *)
(* a ^ b, whichever operand has more ranges.                               *)
C7_SetOpsCanonicalExact ==
    algOp \in SetOps =>
        /\ Canonical(algRes)
        /\ ProbeExact(algRes)
        /\ SameMembers(algRes, algA, algB, algOp)

(* The first operand is the shorter list (so the operands are swapped) and *)
(* the intersection has split into two ranges.                             *)
C7_Witness ==
    /\ algOp = "intersection"
    /\ Len(algA) < Len(algB)
    /\ Len(algRes) = 2

(* C8: for every character set s, including the empty set, the full set    *)
(* and sets touching code point 0 or MAX_CHAR, s | ~s is the full set and  *)
(* s & ~s is the empty set.                                                *)
C8_InverseComplements ==
    /\ algOp = "or_inverse" => algRes = FullSet
    /\ algOp = "and_inverse" => algRes = EmptySet

(* s has two ranges, one starting at code point 0 and one ending at        *)
(* MAX_CHAR, and s | ~s has been computed.                                 *)
C8_Witness ==
    /\ algOp = "or_inverse"
    /\ Len(algA) = 2
    /\ algA[1][1] = MIN_CHAR
    /\ algA[2][2] = MAX_CHAR

(* C9: a.isdisjoint(b) is true exactly when a & b is the empty set,        *)
(* whichever of the two has more ranges.                                   *)
C9_IsDisjointIffEmptyIntersection ==
    algOp = "isdisjoint" => (algRes[1] <=> (CSetAnd(algA, algB) = EmptySet))

(* Two non-empty disjoint sets, the first with fewer ranges.               *)
C9_Witness ==
    /\ algOp = "isdisjoint"
    /\ algRes[1]
    /\ algA # <<>>
    /\ Len(algA) < Len(algB)

(***************************************************************************)
(* Properties of CharSet.disjoint (checked under SpecDisjoint).            *)
(***************************************************************************)
(* The set produced as the j-th pair, and whether input i is an owner.     *)
DjPart(j) == <<djOut[j][1]>>
DjOwner(j, i) == \E k \in 1..Len(djOut[j][2]) : djOut[j][2][k] = i

(* C3: for every emitted pair (D, owners) and every input Si: if Si is in  *)
(* owners then D is a subset of Si, and if Si is not in owners then D and  *)
(* Si have no code point in common.                                        *)
C3_OwnersAreExactlyTheContainers ==
    \A j \in 1..Len(djOut) : \A i \in 1..Len(djIn) :
        /\ DjOwner(j, i) =>
               \A c \in DjPoints : Member(DjPart(j), c) => Member(djIn[i], c)
        /\ ~DjOwner(j, i) =>
               \A c \in DjPoints : ~(Member(DjPart(j), c) /\ Member(djIn[i], c))

(* C4: the emitted sets form a partition of the union of the inputs: each  *)
(* is one non-empty range, any two are disjoint, and once the generator is *)
(* exhausted a code point is in some emitted set iff it is in some input.  *)
C4_PartsPartitionTheUnion ==
    /\ \A j \in 1..Len(djOut) : djOut[j][1][1] <= djOut[j][1][2]
    /\ \A j, k \in 1..Len(djOut) :
           j < k => \A c \in DjPoints : ~(Member(DjPart(j), c) /\ Member(DjPart(k), c))
    /\ \A j \in 1..Len(djOut) : \A c \in DjPoints :
           Member(DjPart(j), c) => \E i \in 1..Len(djIn) : Member(djIn[i], c)
    /\ djPc = "done" =>
           \A c \in DjPoints :
               (\E i \in 1..Len(djIn) : Member(djIn[i], c))
                   => \E j \in 1..Len(djOut) : Member(DjPart(j), c)

(* Overlapping inputs were decomposed to the end: three parts came out,    *)
(* one of them shared by two or more inputs.                               *)
C4_Witness ==
    /\ djPc = "done"
    /\ Len(djOut) >= 3
    /\ \E j \in 1..Len(djOut) : Len(djOut[j][2]) >= 2

(* The total length of the ranges the queue holds                          *)
DjTotal(items) == RangeSum([i \in 1..Len(items) |-> items[i][1]])

(* What a suspended pass has taken off the queue and not produced: the     *)
(* supersets beyond the produced range, and the rest of the working range. *)
DjOwed(frame) ==
    LET start == frame.emit[1][2] + 1
    IN  RangeSum([i \in 1..Len(frame.supersets) |->
                     <<start, frame.supersets[i][1][2]>>])
        + (IF start <= frame.rng[2] THEN (frame.rng[2] - start) + 1 ELSE 0)

(* The total length the generator still holds: the queue, and while it is  *)
(* suspended what the pass owes the queue.                                 *)
DjHeld == DjTotal(djQ) + (IF djPc = "yielded" THEN DjOwed(djFrame[1]) ELSE 0)

(* C28: for any finite list of CSets the work loop of CSet.disjoint        *)
(* terminates: each iteration strictly decreases the total length of the   *)
(* ranges held in the priority queue (the first half of a pass, up to the  *)
(* yield, strictly decreases what is held, and the second half pushes back *)
(* no more than the pass owes), every range in the queue, pushed back or   *)
(* not, has start <= end, and the queue is eventually empty and the        *)
(* generator exhausted.                                                    *)
C28_DisjointLoopTerminates ==
    /\ [][(djPc = "loop" /\ djQ # <<>>) => DjHeld' < DjHeld]_vars
    /\ [][djPc = "yielded" => DjHeld' <= DjHeld]_vars
    /\ [](\A i \in 1..Len(djQ) : djQ[i][1][1] <= djQ[i][1][2])
    /\ <>(djPc = "done" /\ djQ = <<>>)

(* In the middle of the loop a part has been produced and the queue holds  *)
(* a range that no input set has: the rest of a range that was split and   *)
(* pushed back.                                                            *)
C28_Witness ==
    /\ djPc = "loop"
    /\ djOut # <<>>
    /\ \E i \in 1..Len(djQ) :
          \A j \in 1..Len(djIn) : \A k \in 1..Len(djIn[j]) : djIn[j][k] # djQ[i][1]

====
